---- MODULE Spec2Model ----
(***************************************************************************)
(* Synapse (formerly LanDrop): the wire-protocol engine of a LAN file      *)
(* transfer tool.  One sender connection handler (handleTransfer) and one  *)
(* receive session (ReceiveConnectWithOptions) talk over a TLS byte        *)
(* stream: header record, request record, content region, 32-byte footer.  *)
(*                                                                         *)
(* Bytes are integers 0..255.  Paths and file names are sequences of       *)
(* one-character strings.  Library code that is not part of the            *)
(* repository is modelled by what the repository relies on:                *)
(*   - BLAKE3 is a collision-free digest of DigestLen bytes (Digest);      *)
(*   - zstd is a framed run-length codec with a magic number whose decoder *)
(*     rejects malformed frames (ZstdEncode / ZstdDecode); the encoder     *)
(*     buffers its input and emits the frame when it is closed, in one    *)
(*     Write call or in two (frame header, then blocks).                   *)
(*                                                                         *)
(* The module holds several specifications over one set of variables; the  *)
(* variables of the components a specification does not exercise stay at   *)
(* rest:                                                                   *)
(*   Spec        one connection, byte by byte (handler and receiver);      *)
(*   SpecServe   one sender session (StartSenderWithOptions) serving       *)
(*               several connections at once, with stop and cleanup;      *)
(*   SpecApp     App.StartSending / App.StopSending and sender goroutines; *)
(*   SpecUnzip   unzip over an archive's entries;                          *)
(*   SpecChunk   ChunkedWriter against ChunkedReader;                      *)
(*   SpecHeader  the receiver against any header record;                   *)
(*   SpecPolicy  getCompressionMethod over file names.                     *)
(***************************************************************************)
EXTENDS Integers, Sequences, FiniteSets, TLC

\* ------------------------------------------------------------------ bounds

\* Longest source content (file bytes, or archive bytes for a directory).
MaxLen == 2

\* Longest pre-existing file at the receiver's target path.
MaxTargetLen == 1

\* Copy buffer of io.CopyBuffer, scaled down from 4 MiB so that a copy takes
\* more than one read.
CopyBuf == 1

\* Length of the footer digest read by the receiver.
DigestLen == 32

\* Content bytes the model draws from.
ContentBytes == {0, 1}

\* ------------------------------------------------------------ sequences

Min(a, b) == IF a < b THEN a ELSE b

SeqsUpTo(S, n) == UNION {[1..k -> S] : k \in 0..n}

Drop(s, n) == SubSeq(s, n + 1, Len(s))

Take(s, n) == SubSeq(s, 1, n)

IsPrefix(p, s) == Len(p) <= Len(s) /\ Take(s, Len(p)) = p

\* ------------------------------------------------------------ paths

Str(s) == [i \in 1..Len(s) |-> s[i]]

\* unicode.ToLower, the table of the characters it changes: the upper-case and
\* title-case letters of Unicode, each at the place its lower-case letter has
\* in LowerCase.  A character outside ASCII is written by its Go escape.
UpperCase ==
    <<
      "A", "B", "C", "D", "E", "F", "G", "H",
      "I", "J", "K", "L", "M", "N", "O", "P",
      "Q", "R", "S", "T", "U", "V", "W", "X",
      "Y", "Z", "\\u00C0", "\\u00C1", "\\u00C2", "\\u00C3", "\\u00C4", "\\u00C5",
      "\\u00C6", "\\u00C7", "\\u00C8", "\\u00C9", "\\u00CA", "\\u00CB", "\\u00CC", "\\u00CD",
      "\\u00CE", "\\u00CF", "\\u00D0", "\\u00D1", "\\u00D2", "\\u00D3", "\\u00D4", "\\u00D5",
      "\\u00D6", "\\u00D8", "\\u00D9", "\\u00DA", "\\u00DB", "\\u00DC", "\\u00DD", "\\u00DE",
      "\\u0100", "\\u0102", "\\u0104", "\\u0106", "\\u0108", "\\u010A", "\\u010C", "\\u010E",
      "\\u0110", "\\u0112", "\\u0114", "\\u0116", "\\u0118", "\\u011A", "\\u011C", "\\u011E",
      "\\u0120", "\\u0122", "\\u0124", "\\u0126", "\\u0128", "\\u012A", "\\u012C", "\\u012E",
      "\\u0130", "\\u0132", "\\u0134", "\\u0136", "\\u0139", "\\u013B", "\\u013D", "\\u013F",
      "\\u0141", "\\u0143", "\\u0145", "\\u0147", "\\u014A", "\\u014C", "\\u014E", "\\u0150",
      "\\u0152", "\\u0154", "\\u0156", "\\u0158", "\\u015A", "\\u015C", "\\u015E", "\\u0160",
      "\\u0162", "\\u0164", "\\u0166", "\\u0168", "\\u016A", "\\u016C", "\\u016E", "\\u0170",
      "\\u0172", "\\u0174", "\\u0176", "\\u0178", "\\u0179", "\\u017B", "\\u017D", "\\u0181",
      "\\u0182", "\\u0184", "\\u0186", "\\u0187", "\\u0189", "\\u018A", "\\u018B", "\\u018E",
      "\\u018F", "\\u0190", "\\u0191", "\\u0193", "\\u0194", "\\u0196", "\\u0197", "\\u0198",
      "\\u019C", "\\u019D", "\\u019F", "\\u01A0", "\\u01A2", "\\u01A4", "\\u01A6", "\\u01A7",
      "\\u01A9", "\\u01AC", "\\u01AE", "\\u01AF", "\\u01B1", "\\u01B2", "\\u01B3", "\\u01B5",
      "\\u01B7", "\\u01B8", "\\u01BC", "\\u01C4", "\\u01C5", "\\u01C7", "\\u01C8", "\\u01CA",
      "\\u01CB", "\\u01CD", "\\u01CF", "\\u01D1", "\\u01D3", "\\u01D5", "\\u01D7", "\\u01D9",
      "\\u01DB", "\\u01DE", "\\u01E0", "\\u01E2", "\\u01E4", "\\u01E6", "\\u01E8", "\\u01EA",
      "\\u01EC", "\\u01EE", "\\u01F1", "\\u01F2", "\\u01F4", "\\u01F6", "\\u01F7", "\\u01F8",
      "\\u01FA", "\\u01FC", "\\u01FE", "\\u0200", "\\u0202", "\\u0204", "\\u0206", "\\u0208",
      "\\u020A", "\\u020C", "\\u020E", "\\u0210", "\\u0212", "\\u0214", "\\u0216", "\\u0218",
      "\\u021A", "\\u021C", "\\u021E", "\\u0220", "\\u0222", "\\u0224", "\\u0226", "\\u0228",
      "\\u022A", "\\u022C", "\\u022E", "\\u0230", "\\u0232", "\\u023A", "\\u023B", "\\u023D",
      "\\u023E", "\\u0241", "\\u0243", "\\u0244", "\\u0245", "\\u0246", "\\u0248", "\\u024A",
      "\\u024C", "\\u024E", "\\u0370", "\\u0372", "\\u0376", "\\u037F", "\\u0386", "\\u0388",
      "\\u0389", "\\u038A", "\\u038C", "\\u038E", "\\u038F", "\\u0391", "\\u0392", "\\u0393",
      "\\u0394", "\\u0395", "\\u0396", "\\u0397", "\\u0398", "\\u0399", "\\u039A", "\\u039B",
      "\\u039C", "\\u039D", "\\u039E", "\\u039F", "\\u03A0", "\\u03A1", "\\u03A3", "\\u03A4",
      "\\u03A5", "\\u03A6", "\\u03A7", "\\u03A8", "\\u03A9", "\\u03AA", "\\u03AB", "\\u03CF",
      "\\u03D8", "\\u03DA", "\\u03DC", "\\u03DE", "\\u03E0", "\\u03E2", "\\u03E4", "\\u03E6",
      "\\u03E8", "\\u03EA", "\\u03EC", "\\u03EE", "\\u03F4", "\\u03F7", "\\u03F9", "\\u03FA",
      "\\u03FD", "\\u03FE", "\\u03FF", "\\u0400", "\\u0401", "\\u0402", "\\u0403", "\\u0404",
      "\\u0405", "\\u0406", "\\u0407", "\\u0408", "\\u0409", "\\u040A", "\\u040B", "\\u040C",
      "\\u040D", "\\u040E", "\\u040F", "\\u0410", "\\u0411", "\\u0412", "\\u0413", "\\u0414",
      "\\u0415", "\\u0416", "\\u0417", "\\u0418", "\\u0419", "\\u041A", "\\u041B", "\\u041C",
      "\\u041D", "\\u041E", "\\u041F", "\\u0420", "\\u0421", "\\u0422", "\\u0423", "\\u0424",
      "\\u0425", "\\u0426", "\\u0427", "\\u0428", "\\u0429", "\\u042A", "\\u042B", "\\u042C",
      "\\u042D", "\\u042E", "\\u042F", "\\u0460", "\\u0462", "\\u0464", "\\u0466", "\\u0468",
      "\\u046A", "\\u046C", "\\u046E", "\\u0470", "\\u0472", "\\u0474", "\\u0476", "\\u0478",
      "\\u047A", "\\u047C", "\\u047E", "\\u0480", "\\u048A", "\\u048C", "\\u048E", "\\u0490",
      "\\u0492", "\\u0494", "\\u0496", "\\u0498", "\\u049A", "\\u049C", "\\u049E", "\\u04A0",
      "\\u04A2", "\\u04A4", "\\u04A6", "\\u04A8", "\\u04AA", "\\u04AC", "\\u04AE", "\\u04B0",
      "\\u04B2", "\\u04B4", "\\u04B6", "\\u04B8", "\\u04BA", "\\u04BC", "\\u04BE", "\\u04C0",
      "\\u04C1", "\\u04C3", "\\u04C5", "\\u04C7", "\\u04C9", "\\u04CB", "\\u04CD", "\\u04D0",
      "\\u04D2", "\\u04D4", "\\u04D6", "\\u04D8", "\\u04DA", "\\u04DC", "\\u04DE", "\\u04E0",
      "\\u04E2", "\\u04E4", "\\u04E6", "\\u04E8", "\\u04EA", "\\u04EC", "\\u04EE", "\\u04F0",
      "\\u04F2", "\\u04F4", "\\u04F6", "\\u04F8", "\\u04FA", "\\u04FC", "\\u04FE", "\\u0500",
      "\\u0502", "\\u0504", "\\u0506", "\\u0508", "\\u050A", "\\u050C", "\\u050E", "\\u0510",
      "\\u0512", "\\u0514", "\\u0516", "\\u0518", "\\u051A", "\\u051C", "\\u051E", "\\u0520",
      "\\u0522", "\\u0524", "\\u0526", "\\u0528", "\\u052A", "\\u052C", "\\u052E", "\\u0531",
      "\\u0532", "\\u0533", "\\u0534", "\\u0535", "\\u0536", "\\u0537", "\\u0538", "\\u0539",
      "\\u053A", "\\u053B", "\\u053C", "\\u053D", "\\u053E", "\\u053F", "\\u0540", "\\u0541",
      "\\u0542", "\\u0543", "\\u0544", "\\u0545", "\\u0546", "\\u0547", "\\u0548", "\\u0549",
      "\\u054A", "\\u054B", "\\u054C", "\\u054D", "\\u054E", "\\u054F", "\\u0550", "\\u0551",
      "\\u0552", "\\u0553", "\\u0554", "\\u0555", "\\u0556", "\\u10A0", "\\u10A1", "\\u10A2",
      "\\u10A3", "\\u10A4", "\\u10A5", "\\u10A6", "\\u10A7", "\\u10A8", "\\u10A9", "\\u10AA",
      "\\u10AB", "\\u10AC", "\\u10AD", "\\u10AE", "\\u10AF", "\\u10B0", "\\u10B1", "\\u10B2",
      "\\u10B3", "\\u10B4", "\\u10B5", "\\u10B6", "\\u10B7", "\\u10B8", "\\u10B9", "\\u10BA",
      "\\u10BB", "\\u10BC", "\\u10BD", "\\u10BE", "\\u10BF", "\\u10C0", "\\u10C1", "\\u10C2",
      "\\u10C3", "\\u10C4", "\\u10C5", "\\u10C7", "\\u10CD", "\\u13A0", "\\u13A1", "\\u13A2",
      "\\u13A3", "\\u13A4", "\\u13A5", "\\u13A6", "\\u13A7", "\\u13A8", "\\u13A9", "\\u13AA",
      "\\u13AB", "\\u13AC", "\\u13AD", "\\u13AE", "\\u13AF", "\\u13B0", "\\u13B1", "\\u13B2",
      "\\u13B3", "\\u13B4", "\\u13B5", "\\u13B6", "\\u13B7", "\\u13B8", "\\u13B9", "\\u13BA",
      "\\u13BB", "\\u13BC", "\\u13BD", "\\u13BE", "\\u13BF", "\\u13C0", "\\u13C1", "\\u13C2",
      "\\u13C3", "\\u13C4", "\\u13C5", "\\u13C6", "\\u13C7", "\\u13C8", "\\u13C9", "\\u13CA",
      "\\u13CB", "\\u13CC", "\\u13CD", "\\u13CE", "\\u13CF", "\\u13D0", "\\u13D1", "\\u13D2",
      "\\u13D3", "\\u13D4", "\\u13D5", "\\u13D6", "\\u13D7", "\\u13D8", "\\u13D9", "\\u13DA",
      "\\u13DB", "\\u13DC", "\\u13DD", "\\u13DE", "\\u13DF", "\\u13E0", "\\u13E1", "\\u13E2",
      "\\u13E3", "\\u13E4", "\\u13E5", "\\u13E6", "\\u13E7", "\\u13E8", "\\u13E9", "\\u13EA",
      "\\u13EB", "\\u13EC", "\\u13ED", "\\u13EE", "\\u13EF", "\\u13F0", "\\u13F1", "\\u13F2",
      "\\u13F3", "\\u13F4", "\\u13F5", "\\u1C90", "\\u1C91", "\\u1C92", "\\u1C93", "\\u1C94",
      "\\u1C95", "\\u1C96", "\\u1C97", "\\u1C98", "\\u1C99", "\\u1C9A", "\\u1C9B", "\\u1C9C",
      "\\u1C9D", "\\u1C9E", "\\u1C9F", "\\u1CA0", "\\u1CA1", "\\u1CA2", "\\u1CA3", "\\u1CA4",
      "\\u1CA5", "\\u1CA6", "\\u1CA7", "\\u1CA8", "\\u1CA9", "\\u1CAA", "\\u1CAB", "\\u1CAC",
      "\\u1CAD", "\\u1CAE", "\\u1CAF", "\\u1CB0", "\\u1CB1", "\\u1CB2", "\\u1CB3", "\\u1CB4",
      "\\u1CB5", "\\u1CB6", "\\u1CB7", "\\u1CB8", "\\u1CB9", "\\u1CBA", "\\u1CBD", "\\u1CBE",
      "\\u1CBF", "\\u1E00", "\\u1E02", "\\u1E04", "\\u1E06", "\\u1E08", "\\u1E0A", "\\u1E0C",
      "\\u1E0E", "\\u1E10", "\\u1E12", "\\u1E14", "\\u1E16", "\\u1E18", "\\u1E1A", "\\u1E1C",
      "\\u1E1E", "\\u1E20", "\\u1E22", "\\u1E24", "\\u1E26", "\\u1E28", "\\u1E2A", "\\u1E2C",
      "\\u1E2E", "\\u1E30", "\\u1E32", "\\u1E34", "\\u1E36", "\\u1E38", "\\u1E3A", "\\u1E3C",
      "\\u1E3E", "\\u1E40", "\\u1E42", "\\u1E44", "\\u1E46", "\\u1E48", "\\u1E4A", "\\u1E4C",
      "\\u1E4E", "\\u1E50", "\\u1E52", "\\u1E54", "\\u1E56", "\\u1E58", "\\u1E5A", "\\u1E5C",
      "\\u1E5E", "\\u1E60", "\\u1E62", "\\u1E64", "\\u1E66", "\\u1E68", "\\u1E6A", "\\u1E6C",
      "\\u1E6E", "\\u1E70", "\\u1E72", "\\u1E74", "\\u1E76", "\\u1E78", "\\u1E7A", "\\u1E7C",
      "\\u1E7E", "\\u1E80", "\\u1E82", "\\u1E84", "\\u1E86", "\\u1E88", "\\u1E8A", "\\u1E8C",
      "\\u1E8E", "\\u1E90", "\\u1E92", "\\u1E94", "\\u1E9E", "\\u1EA0", "\\u1EA2", "\\u1EA4",
      "\\u1EA6", "\\u1EA8", "\\u1EAA", "\\u1EAC", "\\u1EAE", "\\u1EB0", "\\u1EB2", "\\u1EB4",
      "\\u1EB6", "\\u1EB8", "\\u1EBA", "\\u1EBC", "\\u1EBE", "\\u1EC0", "\\u1EC2", "\\u1EC4",
      "\\u1EC6", "\\u1EC8", "\\u1ECA", "\\u1ECC", "\\u1ECE", "\\u1ED0", "\\u1ED2", "\\u1ED4",
      "\\u1ED6", "\\u1ED8", "\\u1EDA", "\\u1EDC", "\\u1EDE", "\\u1EE0", "\\u1EE2", "\\u1EE4",
      "\\u1EE6", "\\u1EE8", "\\u1EEA", "\\u1EEC", "\\u1EEE", "\\u1EF0", "\\u1EF2", "\\u1EF4",
      "\\u1EF6", "\\u1EF8", "\\u1EFA", "\\u1EFC", "\\u1EFE", "\\u1F08", "\\u1F09", "\\u1F0A",
      "\\u1F0B", "\\u1F0C", "\\u1F0D", "\\u1F0E", "\\u1F0F", "\\u1F18", "\\u1F19", "\\u1F1A",
      "\\u1F1B", "\\u1F1C", "\\u1F1D", "\\u1F28", "\\u1F29", "\\u1F2A", "\\u1F2B", "\\u1F2C",
      "\\u1F2D", "\\u1F2E", "\\u1F2F", "\\u1F38", "\\u1F39", "\\u1F3A", "\\u1F3B", "\\u1F3C",
      "\\u1F3D", "\\u1F3E", "\\u1F3F", "\\u1F48", "\\u1F49", "\\u1F4A", "\\u1F4B", "\\u1F4C",
      "\\u1F4D", "\\u1F59", "\\u1F5B", "\\u1F5D", "\\u1F5F", "\\u1F68", "\\u1F69", "\\u1F6A",
      "\\u1F6B", "\\u1F6C", "\\u1F6D", "\\u1F6E", "\\u1F6F", "\\u1F88", "\\u1F89", "\\u1F8A",
      "\\u1F8B", "\\u1F8C", "\\u1F8D", "\\u1F8E", "\\u1F8F", "\\u1F98", "\\u1F99", "\\u1F9A",
      "\\u1F9B", "\\u1F9C", "\\u1F9D", "\\u1F9E", "\\u1F9F", "\\u1FA8", "\\u1FA9", "\\u1FAA",
      "\\u1FAB", "\\u1FAC", "\\u1FAD", "\\u1FAE", "\\u1FAF", "\\u1FB8", "\\u1FB9", "\\u1FBA",
      "\\u1FBB", "\\u1FBC", "\\u1FC8", "\\u1FC9", "\\u1FCA", "\\u1FCB", "\\u1FCC", "\\u1FD8",
      "\\u1FD9", "\\u1FDA", "\\u1FDB", "\\u1FE8", "\\u1FE9", "\\u1FEA", "\\u1FEB", "\\u1FEC",
      "\\u1FF8", "\\u1FF9", "\\u1FFA", "\\u1FFB", "\\u1FFC", "\\u2126", "\\u212A", "\\u212B",
      "\\u2132", "\\u2160", "\\u2161", "\\u2162", "\\u2163", "\\u2164", "\\u2165", "\\u2166",
      "\\u2167", "\\u2168", "\\u2169", "\\u216A", "\\u216B", "\\u216C", "\\u216D", "\\u216E",
      "\\u216F", "\\u2183", "\\u24B6", "\\u24B7", "\\u24B8", "\\u24B9", "\\u24BA", "\\u24BB",
      "\\u24BC", "\\u24BD", "\\u24BE", "\\u24BF", "\\u24C0", "\\u24C1", "\\u24C2", "\\u24C3",
      "\\u24C4", "\\u24C5", "\\u24C6", "\\u24C7", "\\u24C8", "\\u24C9", "\\u24CA", "\\u24CB",
      "\\u24CC", "\\u24CD", "\\u24CE", "\\u24CF", "\\u2C00", "\\u2C01", "\\u2C02", "\\u2C03",
      "\\u2C04", "\\u2C05", "\\u2C06", "\\u2C07", "\\u2C08", "\\u2C09", "\\u2C0A", "\\u2C0B",
      "\\u2C0C", "\\u2C0D", "\\u2C0E", "\\u2C0F", "\\u2C10", "\\u2C11", "\\u2C12", "\\u2C13",
      "\\u2C14", "\\u2C15", "\\u2C16", "\\u2C17", "\\u2C18", "\\u2C19", "\\u2C1A", "\\u2C1B",
      "\\u2C1C", "\\u2C1D", "\\u2C1E", "\\u2C1F", "\\u2C20", "\\u2C21", "\\u2C22", "\\u2C23",
      "\\u2C24", "\\u2C25", "\\u2C26", "\\u2C27", "\\u2C28", "\\u2C29", "\\u2C2A", "\\u2C2B",
      "\\u2C2C", "\\u2C2D", "\\u2C2E", "\\u2C2F", "\\u2C60", "\\u2C62", "\\u2C63", "\\u2C64",
      "\\u2C67", "\\u2C69", "\\u2C6B", "\\u2C6D", "\\u2C6E", "\\u2C6F", "\\u2C70", "\\u2C72",
      "\\u2C75", "\\u2C7E", "\\u2C7F", "\\u2C80", "\\u2C82", "\\u2C84", "\\u2C86", "\\u2C88",
      "\\u2C8A", "\\u2C8C", "\\u2C8E", "\\u2C90", "\\u2C92", "\\u2C94", "\\u2C96", "\\u2C98",
      "\\u2C9A", "\\u2C9C", "\\u2C9E", "\\u2CA0", "\\u2CA2", "\\u2CA4", "\\u2CA6", "\\u2CA8",
      "\\u2CAA", "\\u2CAC", "\\u2CAE", "\\u2CB0", "\\u2CB2", "\\u2CB4", "\\u2CB6", "\\u2CB8",
      "\\u2CBA", "\\u2CBC", "\\u2CBE", "\\u2CC0", "\\u2CC2", "\\u2CC4", "\\u2CC6", "\\u2CC8",
      "\\u2CCA", "\\u2CCC", "\\u2CCE", "\\u2CD0", "\\u2CD2", "\\u2CD4", "\\u2CD6", "\\u2CD8",
      "\\u2CDA", "\\u2CDC", "\\u2CDE", "\\u2CE0", "\\u2CE2", "\\u2CEB", "\\u2CED", "\\u2CF2",
      "\\uA640", "\\uA642", "\\uA644", "\\uA646", "\\uA648", "\\uA64A", "\\uA64C", "\\uA64E",
      "\\uA650", "\\uA652", "\\uA654", "\\uA656", "\\uA658", "\\uA65A", "\\uA65C", "\\uA65E",
      "\\uA660", "\\uA662", "\\uA664", "\\uA666", "\\uA668", "\\uA66A", "\\uA66C", "\\uA680",
      "\\uA682", "\\uA684", "\\uA686", "\\uA688", "\\uA68A", "\\uA68C", "\\uA68E", "\\uA690",
      "\\uA692", "\\uA694", "\\uA696", "\\uA698", "\\uA69A", "\\uA722", "\\uA724", "\\uA726",
      "\\uA728", "\\uA72A", "\\uA72C", "\\uA72E", "\\uA732", "\\uA734", "\\uA736", "\\uA738",
      "\\uA73A", "\\uA73C", "\\uA73E", "\\uA740", "\\uA742", "\\uA744", "\\uA746", "\\uA748",
      "\\uA74A", "\\uA74C", "\\uA74E", "\\uA750", "\\uA752", "\\uA754", "\\uA756", "\\uA758",
      "\\uA75A", "\\uA75C", "\\uA75E", "\\uA760", "\\uA762", "\\uA764", "\\uA766", "\\uA768",
      "\\uA76A", "\\uA76C", "\\uA76E", "\\uA779", "\\uA77B", "\\uA77D", "\\uA77E", "\\uA780",
      "\\uA782", "\\uA784", "\\uA786", "\\uA78B", "\\uA78D", "\\uA790", "\\uA792", "\\uA796",
      "\\uA798", "\\uA79A", "\\uA79C", "\\uA79E", "\\uA7A0", "\\uA7A2", "\\uA7A4", "\\uA7A6",
      "\\uA7A8", "\\uA7AA", "\\uA7AB", "\\uA7AC", "\\uA7AD", "\\uA7AE", "\\uA7B0", "\\uA7B1",
      "\\uA7B2", "\\uA7B3", "\\uA7B4", "\\uA7B6", "\\uA7B8", "\\uA7BA", "\\uA7BC", "\\uA7BE",
      "\\uA7C0", "\\uA7C2", "\\uA7C4", "\\uA7C5", "\\uA7C6", "\\uA7C7", "\\uA7C9", "\\uA7D0",
      "\\uA7D6", "\\uA7D8", "\\uA7F5", "\\uFF21", "\\uFF22", "\\uFF23", "\\uFF24", "\\uFF25",
      "\\uFF26", "\\uFF27", "\\uFF28", "\\uFF29", "\\uFF2A", "\\uFF2B", "\\uFF2C", "\\uFF2D",
      "\\uFF2E", "\\uFF2F", "\\uFF30", "\\uFF31", "\\uFF32", "\\uFF33", "\\uFF34", "\\uFF35",
      "\\uFF36", "\\uFF37", "\\uFF38", "\\uFF39", "\\uFF3A", "\\U00010400", "\\U00010401", "\\U00010402",
      "\\U00010403", "\\U00010404", "\\U00010405", "\\U00010406", "\\U00010407", "\\U00010408", "\\U00010409", "\\U0001040A",
      "\\U0001040B", "\\U0001040C", "\\U0001040D", "\\U0001040E", "\\U0001040F", "\\U00010410", "\\U00010411", "\\U00010412",
      "\\U00010413", "\\U00010414", "\\U00010415", "\\U00010416", "\\U00010417", "\\U00010418", "\\U00010419", "\\U0001041A",
      "\\U0001041B", "\\U0001041C", "\\U0001041D", "\\U0001041E", "\\U0001041F", "\\U00010420", "\\U00010421", "\\U00010422",
      "\\U00010423", "\\U00010424", "\\U00010425", "\\U00010426", "\\U00010427", "\\U000104B0", "\\U000104B1", "\\U000104B2",
      "\\U000104B3", "\\U000104B4", "\\U000104B5", "\\U000104B6", "\\U000104B7", "\\U000104B8", "\\U000104B9", "\\U000104BA",
      "\\U000104BB", "\\U000104BC", "\\U000104BD", "\\U000104BE", "\\U000104BF", "\\U000104C0", "\\U000104C1", "\\U000104C2",
      "\\U000104C3", "\\U000104C4", "\\U000104C5", "\\U000104C6", "\\U000104C7", "\\U000104C8", "\\U000104C9", "\\U000104CA",
      "\\U000104CB", "\\U000104CC", "\\U000104CD", "\\U000104CE", "\\U000104CF", "\\U000104D0", "\\U000104D1", "\\U000104D2",
      "\\U000104D3", "\\U00010570", "\\U00010571", "\\U00010572", "\\U00010573", "\\U00010574", "\\U00010575", "\\U00010576",
      "\\U00010577", "\\U00010578", "\\U00010579", "\\U0001057A", "\\U0001057C", "\\U0001057D", "\\U0001057E", "\\U0001057F",
      "\\U00010580", "\\U00010581", "\\U00010582", "\\U00010583", "\\U00010584", "\\U00010585", "\\U00010586", "\\U00010587",
      "\\U00010588", "\\U00010589", "\\U0001058A", "\\U0001058C", "\\U0001058D", "\\U0001058E", "\\U0001058F", "\\U00010590",
      "\\U00010591", "\\U00010592", "\\U00010594", "\\U00010595", "\\U00010C80", "\\U00010C81", "\\U00010C82", "\\U00010C83",
      "\\U00010C84", "\\U00010C85", "\\U00010C86", "\\U00010C87", "\\U00010C88", "\\U00010C89", "\\U00010C8A", "\\U00010C8B",
      "\\U00010C8C", "\\U00010C8D", "\\U00010C8E", "\\U00010C8F", "\\U00010C90", "\\U00010C91", "\\U00010C92", "\\U00010C93",
      "\\U00010C94", "\\U00010C95", "\\U00010C96", "\\U00010C97", "\\U00010C98", "\\U00010C99", "\\U00010C9A", "\\U00010C9B",
      "\\U00010C9C", "\\U00010C9D", "\\U00010C9E", "\\U00010C9F", "\\U00010CA0", "\\U00010CA1", "\\U00010CA2", "\\U00010CA3",
      "\\U00010CA4", "\\U00010CA5", "\\U00010CA6", "\\U00010CA7", "\\U00010CA8", "\\U00010CA9", "\\U00010CAA", "\\U00010CAB",
      "\\U00010CAC", "\\U00010CAD", "\\U00010CAE", "\\U00010CAF", "\\U00010CB0", "\\U00010CB1", "\\U00010CB2", "\\U000118A0",
      "\\U000118A1", "\\U000118A2", "\\U000118A3", "\\U000118A4", "\\U000118A5", "\\U000118A6", "\\U000118A7", "\\U000118A8",
      "\\U000118A9", "\\U000118AA", "\\U000118AB", "\\U000118AC", "\\U000118AD", "\\U000118AE", "\\U000118AF", "\\U000118B0",
      "\\U000118B1", "\\U000118B2", "\\U000118B3", "\\U000118B4", "\\U000118B5", "\\U000118B6", "\\U000118B7", "\\U000118B8",
      "\\U000118B9", "\\U000118BA", "\\U000118BB", "\\U000118BC", "\\U000118BD", "\\U000118BE", "\\U000118BF", "\\U00016E40",
      "\\U00016E41", "\\U00016E42", "\\U00016E43", "\\U00016E44", "\\U00016E45", "\\U00016E46", "\\U00016E47", "\\U00016E48",
      "\\U00016E49", "\\U00016E4A", "\\U00016E4B", "\\U00016E4C", "\\U00016E4D", "\\U00016E4E", "\\U00016E4F", "\\U00016E50",
      "\\U00016E51", "\\U00016E52", "\\U00016E53", "\\U00016E54", "\\U00016E55", "\\U00016E56", "\\U00016E57", "\\U00016E58",
      "\\U00016E59", "\\U00016E5A", "\\U00016E5B", "\\U00016E5C", "\\U00016E5D", "\\U00016E5E", "\\U00016E5F", "\\U0001E900",
      "\\U0001E901", "\\U0001E902", "\\U0001E903", "\\U0001E904", "\\U0001E905", "\\U0001E906", "\\U0001E907", "\\U0001E908",
      "\\U0001E909", "\\U0001E90A", "\\U0001E90B", "\\U0001E90C", "\\U0001E90D", "\\U0001E90E", "\\U0001E90F", "\\U0001E910",
      "\\U0001E911", "\\U0001E912", "\\U0001E913", "\\U0001E914", "\\U0001E915", "\\U0001E916", "\\U0001E917", "\\U0001E918",
      "\\U0001E919", "\\U0001E91A", "\\U0001E91B", "\\U0001E91C", "\\U0001E91D", "\\U0001E91E", "\\U0001E91F", "\\U0001E920",
      "\\U0001E921"
    >>

LowerCase ==
    <<
      "a", "b", "c", "d", "e", "f", "g", "h",
      "i", "j", "k", "l", "m", "n", "o", "p",
      "q", "r", "s", "t", "u", "v", "w", "x",
      "y", "z", "\\u00E0", "\\u00E1", "\\u00E2", "\\u00E3", "\\u00E4", "\\u00E5",
      "\\u00E6", "\\u00E7", "\\u00E8", "\\u00E9", "\\u00EA", "\\u00EB", "\\u00EC", "\\u00ED",
      "\\u00EE", "\\u00EF", "\\u00F0", "\\u00F1", "\\u00F2", "\\u00F3", "\\u00F4", "\\u00F5",
      "\\u00F6", "\\u00F8", "\\u00F9", "\\u00FA", "\\u00FB", "\\u00FC", "\\u00FD", "\\u00FE",
      "\\u0101", "\\u0103", "\\u0105", "\\u0107", "\\u0109", "\\u010B", "\\u010D", "\\u010F",
      "\\u0111", "\\u0113", "\\u0115", "\\u0117", "\\u0119", "\\u011B", "\\u011D", "\\u011F",
      "\\u0121", "\\u0123", "\\u0125", "\\u0127", "\\u0129", "\\u012B", "\\u012D", "\\u012F",
      "i", "\\u0133", "\\u0135", "\\u0137", "\\u013A", "\\u013C", "\\u013E", "\\u0140",
      "\\u0142", "\\u0144", "\\u0146", "\\u0148", "\\u014B", "\\u014D", "\\u014F", "\\u0151",
      "\\u0153", "\\u0155", "\\u0157", "\\u0159", "\\u015B", "\\u015D", "\\u015F", "\\u0161",
      "\\u0163", "\\u0165", "\\u0167", "\\u0169", "\\u016B", "\\u016D", "\\u016F", "\\u0171",
      "\\u0173", "\\u0175", "\\u0177", "\\u00FF", "\\u017A", "\\u017C", "\\u017E", "\\u0253",
      "\\u0183", "\\u0185", "\\u0254", "\\u0188", "\\u0256", "\\u0257", "\\u018C", "\\u01DD",
      "\\u0259", "\\u025B", "\\u0192", "\\u0260", "\\u0263", "\\u0269", "\\u0268", "\\u0199",
      "\\u026F", "\\u0272", "\\u0275", "\\u01A1", "\\u01A3", "\\u01A5", "\\u0280", "\\u01A8",
      "\\u0283", "\\u01AD", "\\u0288", "\\u01B0", "\\u028A", "\\u028B", "\\u01B4", "\\u01B6",
      "\\u0292", "\\u01B9", "\\u01BD", "\\u01C6", "\\u01C6", "\\u01C9", "\\u01C9", "\\u01CC",
      "\\u01CC", "\\u01CE", "\\u01D0", "\\u01D2", "\\u01D4", "\\u01D6", "\\u01D8", "\\u01DA",
      "\\u01DC", "\\u01DF", "\\u01E1", "\\u01E3", "\\u01E5", "\\u01E7", "\\u01E9", "\\u01EB",
      "\\u01ED", "\\u01EF", "\\u01F3", "\\u01F3", "\\u01F5", "\\u0195", "\\u01BF", "\\u01F9",
      "\\u01FB", "\\u01FD", "\\u01FF", "\\u0201", "\\u0203", "\\u0205", "\\u0207", "\\u0209",
      "\\u020B", "\\u020D", "\\u020F", "\\u0211", "\\u0213", "\\u0215", "\\u0217", "\\u0219",
      "\\u021B", "\\u021D", "\\u021F", "\\u019E", "\\u0223", "\\u0225", "\\u0227", "\\u0229",
      "\\u022B", "\\u022D", "\\u022F", "\\u0231", "\\u0233", "\\u2C65", "\\u023C", "\\u019A",
      "\\u2C66", "\\u0242", "\\u0180", "\\u0289", "\\u028C", "\\u0247", "\\u0249", "\\u024B",
      "\\u024D", "\\u024F", "\\u0371", "\\u0373", "\\u0377", "\\u03F3", "\\u03AC", "\\u03AD",
      "\\u03AE", "\\u03AF", "\\u03CC", "\\u03CD", "\\u03CE", "\\u03B1", "\\u03B2", "\\u03B3",
      "\\u03B4", "\\u03B5", "\\u03B6", "\\u03B7", "\\u03B8", "\\u03B9", "\\u03BA", "\\u03BB",
      "\\u03BC", "\\u03BD", "\\u03BE", "\\u03BF", "\\u03C0", "\\u03C1", "\\u03C3", "\\u03C4",
      "\\u03C5", "\\u03C6", "\\u03C7", "\\u03C8", "\\u03C9", "\\u03CA", "\\u03CB", "\\u03D7",
      "\\u03D9", "\\u03DB", "\\u03DD", "\\u03DF", "\\u03E1", "\\u03E3", "\\u03E5", "\\u03E7",
      "\\u03E9", "\\u03EB", "\\u03ED", "\\u03EF", "\\u03B8", "\\u03F8", "\\u03F2", "\\u03FB",
      "\\u037B", "\\u037C", "\\u037D", "\\u0450", "\\u0451", "\\u0452", "\\u0453", "\\u0454",
      "\\u0455", "\\u0456", "\\u0457", "\\u0458", "\\u0459", "\\u045A", "\\u045B", "\\u045C",
      "\\u045D", "\\u045E", "\\u045F", "\\u0430", "\\u0431", "\\u0432", "\\u0433", "\\u0434",
      "\\u0435", "\\u0436", "\\u0437", "\\u0438", "\\u0439", "\\u043A", "\\u043B", "\\u043C",
      "\\u043D", "\\u043E", "\\u043F", "\\u0440", "\\u0441", "\\u0442", "\\u0443", "\\u0444",
      "\\u0445", "\\u0446", "\\u0447", "\\u0448", "\\u0449", "\\u044A", "\\u044B", "\\u044C",
      "\\u044D", "\\u044E", "\\u044F", "\\u0461", "\\u0463", "\\u0465", "\\u0467", "\\u0469",
      "\\u046B", "\\u046D", "\\u046F", "\\u0471", "\\u0473", "\\u0475", "\\u0477", "\\u0479",
      "\\u047B", "\\u047D", "\\u047F", "\\u0481", "\\u048B", "\\u048D", "\\u048F", "\\u0491",
      "\\u0493", "\\u0495", "\\u0497", "\\u0499", "\\u049B", "\\u049D", "\\u049F", "\\u04A1",
      "\\u04A3", "\\u04A5", "\\u04A7", "\\u04A9", "\\u04AB", "\\u04AD", "\\u04AF", "\\u04B1",
      "\\u04B3", "\\u04B5", "\\u04B7", "\\u04B9", "\\u04BB", "\\u04BD", "\\u04BF", "\\u04CF",
      "\\u04C2", "\\u04C4", "\\u04C6", "\\u04C8", "\\u04CA", "\\u04CC", "\\u04CE", "\\u04D1",
      "\\u04D3", "\\u04D5", "\\u04D7", "\\u04D9", "\\u04DB", "\\u04DD", "\\u04DF", "\\u04E1",
      "\\u04E3", "\\u04E5", "\\u04E7", "\\u04E9", "\\u04EB", "\\u04ED", "\\u04EF", "\\u04F1",
      "\\u04F3", "\\u04F5", "\\u04F7", "\\u04F9", "\\u04FB", "\\u04FD", "\\u04FF", "\\u0501",
      "\\u0503", "\\u0505", "\\u0507", "\\u0509", "\\u050B", "\\u050D", "\\u050F", "\\u0511",
      "\\u0513", "\\u0515", "\\u0517", "\\u0519", "\\u051B", "\\u051D", "\\u051F", "\\u0521",
      "\\u0523", "\\u0525", "\\u0527", "\\u0529", "\\u052B", "\\u052D", "\\u052F", "\\u0561",
      "\\u0562", "\\u0563", "\\u0564", "\\u0565", "\\u0566", "\\u0567", "\\u0568", "\\u0569",
      "\\u056A", "\\u056B", "\\u056C", "\\u056D", "\\u056E", "\\u056F", "\\u0570", "\\u0571",
      "\\u0572", "\\u0573", "\\u0574", "\\u0575", "\\u0576", "\\u0577", "\\u0578", "\\u0579",
      "\\u057A", "\\u057B", "\\u057C", "\\u057D", "\\u057E", "\\u057F", "\\u0580", "\\u0581",
      "\\u0582", "\\u0583", "\\u0584", "\\u0585", "\\u0586", "\\u2D00", "\\u2D01", "\\u2D02",
      "\\u2D03", "\\u2D04", "\\u2D05", "\\u2D06", "\\u2D07", "\\u2D08", "\\u2D09", "\\u2D0A",
      "\\u2D0B", "\\u2D0C", "\\u2D0D", "\\u2D0E", "\\u2D0F", "\\u2D10", "\\u2D11", "\\u2D12",
      "\\u2D13", "\\u2D14", "\\u2D15", "\\u2D16", "\\u2D17", "\\u2D18", "\\u2D19", "\\u2D1A",
      "\\u2D1B", "\\u2D1C", "\\u2D1D", "\\u2D1E", "\\u2D1F", "\\u2D20", "\\u2D21", "\\u2D22",
      "\\u2D23", "\\u2D24", "\\u2D25", "\\u2D27", "\\u2D2D", "\\uAB70", "\\uAB71", "\\uAB72",
      "\\uAB73", "\\uAB74", "\\uAB75", "\\uAB76", "\\uAB77", "\\uAB78", "\\uAB79", "\\uAB7A",
      "\\uAB7B", "\\uAB7C", "\\uAB7D", "\\uAB7E", "\\uAB7F", "\\uAB80", "\\uAB81", "\\uAB82",
      "\\uAB83", "\\uAB84", "\\uAB85", "\\uAB86", "\\uAB87", "\\uAB88", "\\uAB89", "\\uAB8A",
      "\\uAB8B", "\\uAB8C", "\\uAB8D", "\\uAB8E", "\\uAB8F", "\\uAB90", "\\uAB91", "\\uAB92",
      "\\uAB93", "\\uAB94", "\\uAB95", "\\uAB96", "\\uAB97", "\\uAB98", "\\uAB99", "\\uAB9A",
      "\\uAB9B", "\\uAB9C", "\\uAB9D", "\\uAB9E", "\\uAB9F", "\\uABA0", "\\uABA1", "\\uABA2",
      "\\uABA3", "\\uABA4", "\\uABA5", "\\uABA6", "\\uABA7", "\\uABA8", "\\uABA9", "\\uABAA",
      "\\uABAB", "\\uABAC", "\\uABAD", "\\uABAE", "\\uABAF", "\\uABB0", "\\uABB1", "\\uABB2",
      "\\uABB3", "\\uABB4", "\\uABB5", "\\uABB6", "\\uABB7", "\\uABB8", "\\uABB9", "\\uABBA",
      "\\uABBB", "\\uABBC", "\\uABBD", "\\uABBE", "\\uABBF", "\\u13F8", "\\u13F9", "\\u13FA",
      "\\u13FB", "\\u13FC", "\\u13FD", "\\u10D0", "\\u10D1", "\\u10D2", "\\u10D3", "\\u10D4",
      "\\u10D5", "\\u10D6", "\\u10D7", "\\u10D8", "\\u10D9", "\\u10DA", "\\u10DB", "\\u10DC",
      "\\u10DD", "\\u10DE", "\\u10DF", "\\u10E0", "\\u10E1", "\\u10E2", "\\u10E3", "\\u10E4",
      "\\u10E5", "\\u10E6", "\\u10E7", "\\u10E8", "\\u10E9", "\\u10EA", "\\u10EB", "\\u10EC",
      "\\u10ED", "\\u10EE", "\\u10EF", "\\u10F0", "\\u10F1", "\\u10F2", "\\u10F3", "\\u10F4",
      "\\u10F5", "\\u10F6", "\\u10F7", "\\u10F8", "\\u10F9", "\\u10FA", "\\u10FD", "\\u10FE",
      "\\u10FF", "\\u1E01", "\\u1E03", "\\u1E05", "\\u1E07", "\\u1E09", "\\u1E0B", "\\u1E0D",
      "\\u1E0F", "\\u1E11", "\\u1E13", "\\u1E15", "\\u1E17", "\\u1E19", "\\u1E1B", "\\u1E1D",
      "\\u1E1F", "\\u1E21", "\\u1E23", "\\u1E25", "\\u1E27", "\\u1E29", "\\u1E2B", "\\u1E2D",
      "\\u1E2F", "\\u1E31", "\\u1E33", "\\u1E35", "\\u1E37", "\\u1E39", "\\u1E3B", "\\u1E3D",
      "\\u1E3F", "\\u1E41", "\\u1E43", "\\u1E45", "\\u1E47", "\\u1E49", "\\u1E4B", "\\u1E4D",
      "\\u1E4F", "\\u1E51", "\\u1E53", "\\u1E55", "\\u1E57", "\\u1E59", "\\u1E5B", "\\u1E5D",
      "\\u1E5F", "\\u1E61", "\\u1E63", "\\u1E65", "\\u1E67", "\\u1E69", "\\u1E6B", "\\u1E6D",
      "\\u1E6F", "\\u1E71", "\\u1E73", "\\u1E75", "\\u1E77", "\\u1E79", "\\u1E7B", "\\u1E7D",
      "\\u1E7F", "\\u1E81", "\\u1E83", "\\u1E85", "\\u1E87", "\\u1E89", "\\u1E8B", "\\u1E8D",
      "\\u1E8F", "\\u1E91", "\\u1E93", "\\u1E95", "\\u00DF", "\\u1EA1", "\\u1EA3", "\\u1EA5",
      "\\u1EA7", "\\u1EA9", "\\u1EAB", "\\u1EAD", "\\u1EAF", "\\u1EB1", "\\u1EB3", "\\u1EB5",
      "\\u1EB7", "\\u1EB9", "\\u1EBB", "\\u1EBD", "\\u1EBF", "\\u1EC1", "\\u1EC3", "\\u1EC5",
      "\\u1EC7", "\\u1EC9", "\\u1ECB", "\\u1ECD", "\\u1ECF", "\\u1ED1", "\\u1ED3", "\\u1ED5",
      "\\u1ED7", "\\u1ED9", "\\u1EDB", "\\u1EDD", "\\u1EDF", "\\u1EE1", "\\u1EE3", "\\u1EE5",
      "\\u1EE7", "\\u1EE9", "\\u1EEB", "\\u1EED", "\\u1EEF", "\\u1EF1", "\\u1EF3", "\\u1EF5",
      "\\u1EF7", "\\u1EF9", "\\u1EFB", "\\u1EFD", "\\u1EFF", "\\u1F00", "\\u1F01", "\\u1F02",
      "\\u1F03", "\\u1F04", "\\u1F05", "\\u1F06", "\\u1F07", "\\u1F10", "\\u1F11", "\\u1F12",
      "\\u1F13", "\\u1F14", "\\u1F15", "\\u1F20", "\\u1F21", "\\u1F22", "\\u1F23", "\\u1F24",
      "\\u1F25", "\\u1F26", "\\u1F27", "\\u1F30", "\\u1F31", "\\u1F32", "\\u1F33", "\\u1F34",
      "\\u1F35", "\\u1F36", "\\u1F37", "\\u1F40", "\\u1F41", "\\u1F42", "\\u1F43", "\\u1F44",
      "\\u1F45", "\\u1F51", "\\u1F53", "\\u1F55", "\\u1F57", "\\u1F60", "\\u1F61", "\\u1F62",
      "\\u1F63", "\\u1F64", "\\u1F65", "\\u1F66", "\\u1F67", "\\u1F80", "\\u1F81", "\\u1F82",
      "\\u1F83", "\\u1F84", "\\u1F85", "\\u1F86", "\\u1F87", "\\u1F90", "\\u1F91", "\\u1F92",
      "\\u1F93", "\\u1F94", "\\u1F95", "\\u1F96", "\\u1F97", "\\u1FA0", "\\u1FA1", "\\u1FA2",
      "\\u1FA3", "\\u1FA4", "\\u1FA5", "\\u1FA6", "\\u1FA7", "\\u1FB0", "\\u1FB1", "\\u1F70",
      "\\u1F71", "\\u1FB3", "\\u1F72", "\\u1F73", "\\u1F74", "\\u1F75", "\\u1FC3", "\\u1FD0",
      "\\u1FD1", "\\u1F76", "\\u1F77", "\\u1FE0", "\\u1FE1", "\\u1F7A", "\\u1F7B", "\\u1FE5",
      "\\u1F78", "\\u1F79", "\\u1F7C", "\\u1F7D", "\\u1FF3", "\\u03C9", "k", "\\u00E5",
      "\\u214E", "\\u2170", "\\u2171", "\\u2172", "\\u2173", "\\u2174", "\\u2175", "\\u2176",
      "\\u2177", "\\u2178", "\\u2179", "\\u217A", "\\u217B", "\\u217C", "\\u217D", "\\u217E",
      "\\u217F", "\\u2184", "\\u24D0", "\\u24D1", "\\u24D2", "\\u24D3", "\\u24D4", "\\u24D5",
      "\\u24D6", "\\u24D7", "\\u24D8", "\\u24D9", "\\u24DA", "\\u24DB", "\\u24DC", "\\u24DD",
      "\\u24DE", "\\u24DF", "\\u24E0", "\\u24E1", "\\u24E2", "\\u24E3", "\\u24E4", "\\u24E5",
      "\\u24E6", "\\u24E7", "\\u24E8", "\\u24E9", "\\u2C30", "\\u2C31", "\\u2C32", "\\u2C33",
      "\\u2C34", "\\u2C35", "\\u2C36", "\\u2C37", "\\u2C38", "\\u2C39", "\\u2C3A", "\\u2C3B",
      "\\u2C3C", "\\u2C3D", "\\u2C3E", "\\u2C3F", "\\u2C40", "\\u2C41", "\\u2C42", "\\u2C43",
      "\\u2C44", "\\u2C45", "\\u2C46", "\\u2C47", "\\u2C48", "\\u2C49", "\\u2C4A", "\\u2C4B",
      "\\u2C4C", "\\u2C4D", "\\u2C4E", "\\u2C4F", "\\u2C50", "\\u2C51", "\\u2C52", "\\u2C53",
      "\\u2C54", "\\u2C55", "\\u2C56", "\\u2C57", "\\u2C58", "\\u2C59", "\\u2C5A", "\\u2C5B",
      "\\u2C5C", "\\u2C5D", "\\u2C5E", "\\u2C5F", "\\u2C61", "\\u026B", "\\u1D7D", "\\u027D",
      "\\u2C68", "\\u2C6A", "\\u2C6C", "\\u0251", "\\u0271", "\\u0250", "\\u0252", "\\u2C73",
      "\\u2C76", "\\u023F", "\\u0240", "\\u2C81", "\\u2C83", "\\u2C85", "\\u2C87", "\\u2C89",
      "\\u2C8B", "\\u2C8D", "\\u2C8F", "\\u2C91", "\\u2C93", "\\u2C95", "\\u2C97", "\\u2C99",
      "\\u2C9B", "\\u2C9D", "\\u2C9F", "\\u2CA1", "\\u2CA3", "\\u2CA5", "\\u2CA7", "\\u2CA9",
      "\\u2CAB", "\\u2CAD", "\\u2CAF", "\\u2CB1", "\\u2CB3", "\\u2CB5", "\\u2CB7", "\\u2CB9",
      "\\u2CBB", "\\u2CBD", "\\u2CBF", "\\u2CC1", "\\u2CC3", "\\u2CC5", "\\u2CC7", "\\u2CC9",
      "\\u2CCB", "\\u2CCD", "\\u2CCF", "\\u2CD1", "\\u2CD3", "\\u2CD5", "\\u2CD7", "\\u2CD9",
      "\\u2CDB", "\\u2CDD", "\\u2CDF", "\\u2CE1", "\\u2CE3", "\\u2CEC", "\\u2CEE", "\\u2CF3",
      "\\uA641", "\\uA643", "\\uA645", "\\uA647", "\\uA649", "\\uA64B", "\\uA64D", "\\uA64F",
      "\\uA651", "\\uA653", "\\uA655", "\\uA657", "\\uA659", "\\uA65B", "\\uA65D", "\\uA65F",
      "\\uA661", "\\uA663", "\\uA665", "\\uA667", "\\uA669", "\\uA66B", "\\uA66D", "\\uA681",
      "\\uA683", "\\uA685", "\\uA687", "\\uA689", "\\uA68B", "\\uA68D", "\\uA68F", "\\uA691",
      "\\uA693", "\\uA695", "\\uA697", "\\uA699", "\\uA69B", "\\uA723", "\\uA725", "\\uA727",
      "\\uA729", "\\uA72B", "\\uA72D", "\\uA72F", "\\uA733", "\\uA735", "\\uA737", "\\uA739",
      "\\uA73B", "\\uA73D", "\\uA73F", "\\uA741", "\\uA743", "\\uA745", "\\uA747", "\\uA749",
      "\\uA74B", "\\uA74D", "\\uA74F", "\\uA751", "\\uA753", "\\uA755", "\\uA757", "\\uA759",
      "\\uA75B", "\\uA75D", "\\uA75F", "\\uA761", "\\uA763", "\\uA765", "\\uA767", "\\uA769",
      "\\uA76B", "\\uA76D", "\\uA76F", "\\uA77A", "\\uA77C", "\\u1D79", "\\uA77F", "\\uA781",
      "\\uA783", "\\uA785", "\\uA787", "\\uA78C", "\\u0265", "\\uA791", "\\uA793", "\\uA797",
      "\\uA799", "\\uA79B", "\\uA79D", "\\uA79F", "\\uA7A1", "\\uA7A3", "\\uA7A5", "\\uA7A7",
      "\\uA7A9", "\\u0266", "\\u025C", "\\u0261", "\\u026C", "\\u026A", "\\u029E", "\\u0287",
      "\\u029D", "\\uAB53", "\\uA7B5", "\\uA7B7", "\\uA7B9", "\\uA7BB", "\\uA7BD", "\\uA7BF",
      "\\uA7C1", "\\uA7C3", "\\uA794", "\\u0282", "\\u1D8E", "\\uA7C8", "\\uA7CA", "\\uA7D1",
      "\\uA7D7", "\\uA7D9", "\\uA7F6", "\\uFF41", "\\uFF42", "\\uFF43", "\\uFF44", "\\uFF45",
      "\\uFF46", "\\uFF47", "\\uFF48", "\\uFF49", "\\uFF4A", "\\uFF4B", "\\uFF4C", "\\uFF4D",
      "\\uFF4E", "\\uFF4F", "\\uFF50", "\\uFF51", "\\uFF52", "\\uFF53", "\\uFF54", "\\uFF55",
      "\\uFF56", "\\uFF57", "\\uFF58", "\\uFF59", "\\uFF5A", "\\U00010428", "\\U00010429", "\\U0001042A",
      "\\U0001042B", "\\U0001042C", "\\U0001042D", "\\U0001042E", "\\U0001042F", "\\U00010430", "\\U00010431", "\\U00010432",
      "\\U00010433", "\\U00010434", "\\U00010435", "\\U00010436", "\\U00010437", "\\U00010438", "\\U00010439", "\\U0001043A",
      "\\U0001043B", "\\U0001043C", "\\U0001043D", "\\U0001043E", "\\U0001043F", "\\U00010440", "\\U00010441", "\\U00010442",
      "\\U00010443", "\\U00010444", "\\U00010445", "\\U00010446", "\\U00010447", "\\U00010448", "\\U00010449", "\\U0001044A",
      "\\U0001044B", "\\U0001044C", "\\U0001044D", "\\U0001044E", "\\U0001044F", "\\U000104D8", "\\U000104D9", "\\U000104DA",
      "\\U000104DB", "\\U000104DC", "\\U000104DD", "\\U000104DE", "\\U000104DF", "\\U000104E0", "\\U000104E1", "\\U000104E2",
      "\\U000104E3", "\\U000104E4", "\\U000104E5", "\\U000104E6", "\\U000104E7", "\\U000104E8", "\\U000104E9", "\\U000104EA",
      "\\U000104EB", "\\U000104EC", "\\U000104ED", "\\U000104EE", "\\U000104EF", "\\U000104F0", "\\U000104F1", "\\U000104F2",
      "\\U000104F3", "\\U000104F4", "\\U000104F5", "\\U000104F6", "\\U000104F7", "\\U000104F8", "\\U000104F9", "\\U000104FA",
      "\\U000104FB", "\\U00010597", "\\U00010598", "\\U00010599", "\\U0001059A", "\\U0001059B", "\\U0001059C", "\\U0001059D",
      "\\U0001059E", "\\U0001059F", "\\U000105A0", "\\U000105A1", "\\U000105A3", "\\U000105A4", "\\U000105A5", "\\U000105A6",
      "\\U000105A7", "\\U000105A8", "\\U000105A9", "\\U000105AA", "\\U000105AB", "\\U000105AC", "\\U000105AD", "\\U000105AE",
      "\\U000105AF", "\\U000105B0", "\\U000105B1", "\\U000105B3", "\\U000105B4", "\\U000105B5", "\\U000105B6", "\\U000105B7",
      "\\U000105B8", "\\U000105B9", "\\U000105BB", "\\U000105BC", "\\U00010CC0", "\\U00010CC1", "\\U00010CC2", "\\U00010CC3",
      "\\U00010CC4", "\\U00010CC5", "\\U00010CC6", "\\U00010CC7", "\\U00010CC8", "\\U00010CC9", "\\U00010CCA", "\\U00010CCB",
      "\\U00010CCC", "\\U00010CCD", "\\U00010CCE", "\\U00010CCF", "\\U00010CD0", "\\U00010CD1", "\\U00010CD2", "\\U00010CD3",
      "\\U00010CD4", "\\U00010CD5", "\\U00010CD6", "\\U00010CD7", "\\U00010CD8", "\\U00010CD9", "\\U00010CDA", "\\U00010CDB",
      "\\U00010CDC", "\\U00010CDD", "\\U00010CDE", "\\U00010CDF", "\\U00010CE0", "\\U00010CE1", "\\U00010CE2", "\\U00010CE3",
      "\\U00010CE4", "\\U00010CE5", "\\U00010CE6", "\\U00010CE7", "\\U00010CE8", "\\U00010CE9", "\\U00010CEA", "\\U00010CEB",
      "\\U00010CEC", "\\U00010CED", "\\U00010CEE", "\\U00010CEF", "\\U00010CF0", "\\U00010CF1", "\\U00010CF2", "\\U000118C0",
      "\\U000118C1", "\\U000118C2", "\\U000118C3", "\\U000118C4", "\\U000118C5", "\\U000118C6", "\\U000118C7", "\\U000118C8",
      "\\U000118C9", "\\U000118CA", "\\U000118CB", "\\U000118CC", "\\U000118CD", "\\U000118CE", "\\U000118CF", "\\U000118D0",
      "\\U000118D1", "\\U000118D2", "\\U000118D3", "\\U000118D4", "\\U000118D5", "\\U000118D6", "\\U000118D7", "\\U000118D8",
      "\\U000118D9", "\\U000118DA", "\\U000118DB", "\\U000118DC", "\\U000118DD", "\\U000118DE", "\\U000118DF", "\\U00016E60",
      "\\U00016E61", "\\U00016E62", "\\U00016E63", "\\U00016E64", "\\U00016E65", "\\U00016E66", "\\U00016E67", "\\U00016E68",
      "\\U00016E69", "\\U00016E6A", "\\U00016E6B", "\\U00016E6C", "\\U00016E6D", "\\U00016E6E", "\\U00016E6F", "\\U00016E70",
      "\\U00016E71", "\\U00016E72", "\\U00016E73", "\\U00016E74", "\\U00016E75", "\\U00016E76", "\\U00016E77", "\\U00016E78",
      "\\U00016E79", "\\U00016E7A", "\\U00016E7B", "\\U00016E7C", "\\U00016E7D", "\\U00016E7E", "\\U00016E7F", "\\U0001E922",
      "\\U0001E923", "\\U0001E924", "\\U0001E925", "\\U0001E926", "\\U0001E927", "\\U0001E928", "\\U0001E929", "\\U0001E92A",
      "\\U0001E92B", "\\U0001E92C", "\\U0001E92D", "\\U0001E92E", "\\U0001E92F", "\\U0001E930", "\\U0001E931", "\\U0001E932",
      "\\U0001E933", "\\U0001E934", "\\U0001E935", "\\U0001E936", "\\U0001E937", "\\U0001E938", "\\U0001E939", "\\U0001E93A",
      "\\U0001E93B", "\\U0001E93C", "\\U0001E93D", "\\U0001E93E", "\\U0001E93F", "\\U0001E940", "\\U0001E941", "\\U0001E942",
      "\\U0001E943"
    >>

\* The characters unicode.ToLower changes.
Cased == {UpperCase[i] : i \in 1..Len(UpperCase)}

\* unicode.ToLower(r): the lower-case letter of a letter that has one, any
\* other character itself.
ToLowerChar(c) ==
    IF c \in Cased
    THEN LowerCase[CHOOSE i \in 1..Len(UpperCase) : UpperCase[i] = c]
    ELSE c

\* strings.ToLower(s): unicode.ToLower of every character.
ToLower(s) == [i \in 1..Len(s) |-> ToLowerChar(s[i])]

\* filepath.Ext: the suffix beginning at the final dot of the final path
\* element, empty when there is none.
RECURSIVE ExtFrom(_, _)
ExtFrom(path, i) ==
    IF i < 1 \/ path[i] = "/" THEN <<>>
    ELSE IF path[i] = "." THEN SubSeq(path, i, Len(path))
    ELSE ExtFrom(path, i - 1)

Ext(path) == ExtFrom(path, Len(path))

\* filepath.Base: strip trailing separators, keep what follows the last
\* separator; "." for an empty path, "/" for a path of separators only.
RECURSIVE StripTrailingSlashes(_)
StripTrailingSlashes(path) ==
    IF Len(path) > 0 /\ path[Len(path)] = "/"
    THEN StripTrailingSlashes(Take(path, Len(path) - 1))
    ELSE path

RECURSIVE AfterLastSlash(_, _)
AfterLastSlash(path, i) ==
    IF i < 1 THEN path
    ELSE IF path[i] = "/" THEN Drop(path, i)
    ELSE AfterLastSlash(path, i - 1)

Base(path) ==
    IF path = <<>> THEN <<".">>
    ELSE LET p == StripTrailingSlashes(path)
         IN  IF p = <<>> THEN <<"/">> ELSE AfterLastSlash(p, Len(p))

\* unicode.IsSpace: the white space strings.TrimSpace removes.  A character
\* that has no escape here is written by its Go escape.
WhiteSpace ==
    { " ", "\t", "\n", "\r", "\f", "\\v", "\\u0085", "\\u00A0", "\\u1680",
      "\\u2000", "\\u2001", "\\u2002", "\\u2003", "\\u2004", "\\u2005",
      "\\u2006", "\\u2007", "\\u2008", "\\u2009", "\\u200A", "\\u2028",
      "\\u2029", "\\u202F", "\\u205F", "\\u3000" }

\* strings.TrimSpace(s) == ""
IsBlank(s) == \A i \in 1..Len(s) : s[i] \in WhiteSpace

SanitizeFilename(name) ==
    LET safeName == Base(name)
    IN  IF safeName = <<".">> \/ safeName = <<"/">> \/ IsBlank(safeName)
        THEN <<"d","o","w","n","l","o","a","d","e","d","_","f","i","l","e">>
        ELSE safeName

\* --------------------------------------------------- compression policy

CompressionNone == "none"
CompressionGzip == "gzip"
CompressionZstd == "zstd"

SkipExts ==
    { <<".","j","p","g">>, <<".","p","n","g">>, <<".","m","p","4">>,
      <<".","z","i","p">>, <<".","i","s","o">>, <<".","d","m","g">>,
      <<".","g","z">>, <<".","z","s","t">>, <<".","7","z">>,
      <<".","r","a","r">> }

CompressExts ==
    { <<".","t","x","t">>, <<".","l","o","g">>, <<".","j","s","o","n">>,
      <<".","m","d">>, <<".","g","o">> }

\* A policy that looks at the name only.
getCompressionMethod_NameOnly(filename, isDirectory) ==
    LET ext == ToLower(Ext(filename))
    IN  IF ext \in SkipExts THEN CompressionNone
        ELSE IF ext \in CompressExts THEN CompressionZstd
        ELSE CompressionNone

getCompressionMethod(filename, isDirectory) ==
    IF isDirectory THEN CompressionNone
    ELSE LET ext == ToLower(Ext(filename))
         IN  IF ext \in SkipExts THEN CompressionNone
             ELSE IF ext \in CompressExts THEN CompressionZstd
             ELSE CompressionNone

\* ------------------------------------------------------- chunk framing

\* binary.Write(w, binary.BigEndian, uint32(n))
BE32(n) ==
    << (n \div 16777216) % 256, (n \div 65536) % 256, (n \div 256) % 256, n % 256 >>

\* A chunk length (uint32, int64 in the reader) is held as two 16-bit halves <<hi, lo>>, the value being
\* hi * 65536 + lo: every value of the type has its pair and no operation
\* leaves the range of the integers used here.
U32Zero == <<0, 0>>

\* uint32(n) for 0 <= n < 2^31
ToU32(n) == <<n \div 65536, n % 65536>>

\* min(k, u) for an int k >= 0 and a uint32 u
U32Min(k, u) ==
    IF u[1] >= 32768 THEN k
    ELSE IF u[1] * 65536 + u[2] < k THEN u[1] * 65536 + u[2] ELSE k

\* u - uint32(n) for 0 <= n <= u
U32Sub(u, n) ==
    LET lo     == u[2] - (n % 65536)
        borrow == IF lo < 0 THEN 1 ELSE 0
    IN  <<u[1] - (n \div 65536) - borrow, lo + borrow * 65536>>

\* binary.Read(r, binary.BigEndian, &length) on four bytes.
FromBE32(b) == <<b[1] * 256 + b[2], b[3] * 256 + b[4]>>

\* A Write that omits the length prefix.
ChunkedWrite_NoPrefix(p) == p

\* A Write that frames an empty slice like any other.
ChunkedWrite_EmptyFrame(p) == BE32(Len(p)) \o p

\* ChunkedWriter.Write: the bytes one Write call puts on the underlying writer.
ChunkedWrite(p) == IF Len(p) = 0 THEN <<>> ELSE BE32(Len(p)) \o p

\* ChunkedWriter.Close: the zero-length sentinel.
ChunkedClose == BE32(0)

\* ChunkedReader over a complete byte sequence: the payload of the chunks up
\* to the sentinel, and the bytes that follow the sentinel.
RECURSIVE Dechunk(_)
Dechunk(b) ==
    IF Len(b) < 4 THEN [ok |-> FALSE, payload |-> <<>>, rest |-> <<>>]
    ELSE LET length == FromBE32(Take(b, 4))
             n      == U32Min(Len(b), length)
         IN  IF length = U32Zero
             THEN [ok |-> TRUE, payload |-> <<>>, rest |-> Drop(b, 4)]
             ELSE IF Len(b) < 4 + n
                  THEN [ok |-> FALSE, payload |-> <<>>, rest |-> <<>>]
                  ELSE LET r == Dechunk(Drop(b, 4 + n))
                       IN  [ ok      |-> r.ok,
                             payload |-> SubSeq(b, 5, 4 + n) \o r.payload,
                             rest    |-> r.rest ]

\* ------------------------------------------------------------ digest

\* blake3: a collision-free digest of DigestLen bytes over the bytes written
\* to the hasher (injective on the inputs the model produces, all shorter
\* than DigestLen).
Digest(s) == [i \in 1..DigestLen |-> IF i <= Len(s) THEN s[i] + 1 ELSE 0]

\* ------------------------------------------------------------ zstd

ZstdMagic == <<40, 181, 47, 253>>

RECURSIVE RunLength(_)
RunLength(s) ==
    IF Len(s) <= 1 THEN Len(s)
    ELSE IF s[2] = s[1] THEN 1 + RunLength(Tail(s))
    ELSE 1

RECURSIVE RunsOf(_)
RunsOf(s) ==
    IF s = <<>> THEN <<>>
    ELSE LET n == RunLength(s) IN <<n, s[1]>> \o RunsOf(Drop(s, n))

\* The encoder's output for the whole input; nothing for an empty input.
ZstdEncode(s) == IF s = <<>> THEN <<>> ELSE ZstdMagic \o RunsOf(s)

RECURSIVE Expand(_)
Expand(body) ==
    IF body = <<>> THEN <<>>
    ELSE [i \in 1..body[1] |-> body[2]] \o Expand(Drop(body, 2))

WellFormedRuns(body) ==
    /\ Len(body) > 0
    /\ Len(body) % 2 = 0
    /\ \A i \in 1..Len(body) : (i % 2 = 1) => body[i] > 0

\* The decoder on everything the chunked reader delivered before its end:
\* an empty stream decodes to nothing, a frame needs the magic number and
\* well-formed blocks.
ZstdDecode(z) ==
    IF z = <<>> THEN [ok |-> TRUE, data |-> <<>>]
    ELSE IF Len(z) >= 4 /\ Take(z, 4) = ZstdMagic /\ WellFormedRuns(Drop(z, 4))
         THEN [ok |-> TRUE, data |-> Expand(Drop(z, 4))]
         ELSE [ok |-> FALSE, data |-> <<>>]

\* The blocks at the head of a frame body that the decoder can already give
\* out, and whether a malformed block stops it.
RECURSIVE DecodeRuns(_)
DecodeRuns(body) ==
    IF Len(body) < 2 THEN [err |-> FALSE, data |-> <<>>]
    ELSE IF body[1] <= 0 THEN [err |-> TRUE, data |-> <<>>]
    ELSE LET r == DecodeRuns(Drop(body, 2))
         IN  [ err  |-> r.err,
               data |-> [i \in 1..body[1] |-> body[2]] \o r.data ]

\* The decoder on the bytes the chunked reader has delivered so far, more
\* bytes possibly to come: the decoded bytes it has given out, and whether
\* it has met a wrong magic number or a malformed block.
ZstdStream(z) ==
    IF Len(z) < 4 THEN [err |-> FALSE, data |-> <<>>]
    ELSE IF Take(z, 4) # ZstdMagic THEN [err |-> TRUE, data |-> <<>>]
    ELSE DecodeRuns(Drop(z, 4))

\* ------------------------------------------------------------ state

VARIABLES
    inputPath,   \* sender: the path given to StartSenderWithOptions
    isDir,       \* sender: the path is a directory (served from the temp archive)
    content,     \* sender: bytes of the source file, or of the temp archive
    peer,        \* "honest": this repository's receiver; "rogue": any other client
    target0,     \* receiver: what is at the target path before the session
    hdr,         \* connection: header records written by the sender
    r2s,         \* connection: request records written by the peer
    wire,        \* connection: bytes written by the sender after the header
    sClosed,     \* connection: closed by the sender
    rClosed,     \* connection: closed by the peer
    tamper,      \* "none", or the region ("content", "footer") of the altered byte
    spc,         \* sender handler: position
    seeks,       \* sender handler: offsets passed to file.Seek
    sPos,        \* sender handler: read position in the source
    sReadBytes,  \* sender handler: bytes read from the source
    sBuf,        \* sender handler: bytes handed to a Write that has not returned
    sHash,       \* sender handler: bytes written to the hasher
    zOut,        \* sender handler: encoder output not yet written to the ChunkedWriter
    nChunks,     \* sender handler: Write calls made on the ChunkedWriter
    sFooter,     \* sender handler: footers written
    sErr,        \* sender handler: the error handleTransfer returned
    onComplete,  \* sender: OnComplete invocations
    onError,     \* sender: OnError invocations
    sTrace,      \* sender handler: its operations on the connection, in order
    rpc,         \* receiver: position
    rHeader,     \* receiver: the header read
    target,      \* receiver: what is at the target path
    temp,        \* receiver: the temporary archive file
    openMode,    \* receiver: how destFile was opened
    rOffset,     \* receiver: the negotiated offset
    rpos,        \* receiver: bytes of wire consumed
    rHash,       \* receiver: bytes written to the hasher
    currChunk,   \* receiver: ChunkedReader.currChunk
    zbuf,        \* receiver: bytes the ChunkedReader delivered to the decoder
    rGot,        \* receiver: bytes written to destFile in this session
    rFooter,     \* receiver: footers read
    rErr,        \* receiver: the error ReceiveConnectWithOptions returned
    rComplete,   \* receiver: OnComplete invocations / nil returns
    extracted,   \* receiver: the archive was extracted into the download directory
    rTrace       \* receiver: its operations on the connection, in order

VARIABLES
    lifecycle,       \* session: position of StartSenderWithOptions
    ctxDone,         \* session: opts.Ctx is cancelled
    listener,        \* session: "none", "open" or "closed"
    archive,         \* session: the temp archive at sourcePath: "none", "present", "removed"
    archivesCreated, \* session: os.CreateTemp calls made for the archive
    promptMu,        \* session: the connection whose handler holds promptMu, or 0
    handlers,        \* session: per connection, the handler goroutine
    clients,         \* session: per connection, the peer that dialed
    crashed,         \* session: the process was terminated by a panic
    overlap          \* session: two handlers have been in progress at the same time

VARIABLES
    isSending,       \* App.isSending
    senderCancel,    \* App.senderCancel: the session it cancels, or 0 for nil
    sessions,        \* per sender goroutine: its position and whether its context is cancelled
    callers          \* per StartSending call: its position and result

VARIABLES
    dest,            \* unzip: the destination directory
    zipFiles,        \* unzip: r.File, the entries of the archive
    zi,              \* unzip: entries handled so far
    fsPaths,         \* unzip: the paths created or written, in order
    unzipErr         \* unzip: the error returned

VARIABLES
    cwS,             \* chunk: the payload given to the ChunkedWriter over all Write calls
    cwLeft,          \* chunk: the payload not yet written
    cwWire,          \* chunk: the bytes the ChunkedWriter put on its underlying writer
    cwClosed,        \* chunk: Close was called
    crPos,           \* chunk: bytes of cwWire the ChunkedReader consumed
    crCurrChunk,     \* chunk: ChunkedReader.currChunk
    crEof,           \* chunk: ChunkedReader.eof
    crOut,           \* chunk: the bytes Read returned, in order
    crErr            \* chunk: the error of the last Read: "nil" or "EOF"

VARIABLES
    annLen,          \* header: the announced header length
    annPayload,      \* header: what follows the length: "valid", "malformed", "short"
    annHeader,       \* header: the header a valid payload decodes to
    xTarget,         \* header: what is at the target path
    xpc,             \* header: position of ReceiveConnectWithOptions
    xErr,            \* header: the error it returned
    xOps             \* header: its effects, in order

VARIABLES
    polName,         \* policy: the path given to the sender
    polIsDir,        \* policy: it is a directory
    polModes         \* policy: the modes advertised on the session's connections

VARIABLES
    nmName,          \* naming: the name in the header
    nmDir,           \* naming: the download directory
    nmArchive,       \* naming: the header's is_archive
    nmSafe,          \* naming: safeName, once computed
    nmOpens,         \* naming: the paths the receiver tried to open, with the outcome
    nmpc             \* naming: position of ReceiveConnectWithOptions

VARIABLES
    stPath,          \* startup: what inputPath names: "file", "dir", "missing"
    stAllowNil,      \* startup: opts.AllowConn is nil
    stpc,            \* startup: position of StartSenderWithOptions
    stTemp,          \* startup: the temp archive: "none", "present", "removed"
    stListener,      \* startup: "none", "open", "closed"
    stPorts,         \* startup: ports sent on opts.PortChan
    stAnnounce,      \* startup: the advertisement: "none", "published", "shutdown"
    stCtxDone,       \* startup: opts.Ctx is cancelled
    stErr,           \* startup: what StartSenderWithOptions returned: "none", "nil" or an error
    stConn,          \* startup: the handler of an accepted connection
    stCrashed        \* startup: the process was terminated by a panic

VARIABLES
    scCap,           \* scan: capacity of the entries channel
    scDeadline,      \* scan: the browse context's deadline has passed
    scBrowse,        \* scan: position of the goroutine calling discovery.Browse
    scChan,          \* scan: entries in the channel
    scClosed,        \* scan: the entries channel is closed
    scPeers,         \* scan: entries the scan collected
    scpc,            \* scan: position of the scan: "ranging" or "returned"
    scSeen           \* scan: services the resolver has found so far

VARIABLES
    wrWire,          \* writer: the bytes a ChunkedWriter put on its underlying writer
    wrClosed,        \* writer: Close was called
    wrCalls          \* writer: the calls made, with what each returned and emitted

VARIABLES
    frStream,        \* reader: the bytes the underlying stream delivers before it ends
    frFramed,        \* reader: how many of them a ChunkedWriter wrote (with its sentinel), or -1
    frPos,           \* reader: bytes the ChunkedReader consumed from the underlying stream
    frCurrChunk,     \* reader: ChunkedReader.currChunk
    frEof,           \* reader: ChunkedReader.eof
    frCalls          \* reader: the Read calls made, with what each returned and consumed

VARIABLES
    hsEntries,       \* history: store.entries
    hsMu,            \* history: the caller holding store.mu, or 0
    hsCallers,       \* history: per concurrent caller, its position in addHistoryEntry
    hsIssued,        \* history: entries handed to addHistoryEntry so far
    hsLog,           \* history: the entries last loaded from the file and those of
                     \* the calls that returned since, oldest first
    hsBase,          \* history: how many entries of hsLog were loaded from the file
    hsFile,          \* history: history.json: whether it parses, and its entries
    hsLoader         \* history: position of a GetTransferHistory call in loadHistory

VARIABLES
    sProgress,       \* sender handler: the progress records given to onProgress, in order
    rProgress        \* receiver: the progress records given to OnProgress, in order

sessionVars == <<inputPath, isDir, content, peer, target0>>

connVars == <<hdr, r2s, wire, sClosed, rClosed, tamper>>

senderVars ==
    <<spc, seeks, sPos, sReadBytes, sBuf, sHash, zOut, nChunks, sFooter, sErr,
      onComplete, onError, sTrace>>

receiverVars ==
    <<rpc, rHeader, target, temp, openMode, rOffset, rpos, rHash, currChunk,
      zbuf, rGot, rFooter, rErr, rComplete, extracted, rTrace>>

serveVars ==
    <<lifecycle, ctxDone, listener, archive, archivesCreated, promptMu, handlers,
      clients, crashed, overlap>>

appVars == <<isSending, senderCancel, sessions, callers>>

unzipVars == <<dest, zipFiles, zi, fsPaths, unzipErr>>

chunkVars ==
    <<cwS, cwLeft, cwWire, cwClosed, crPos, crCurrChunk, crEof, crOut, crErr>>

headerVars == <<annLen, annPayload, annHeader, xTarget, xpc, xErr, xOps>>

policyVars == <<polName, polIsDir, polModes>>

transferVars == <<connVars, senderVars, receiverVars>>

namingVars == <<nmName, nmDir, nmArchive, nmSafe, nmOpens, nmpc>>

startupVars ==
    <<stPath, stAllowNil, stpc, stTemp, stListener, stPorts, stAnnounce, stCtxDone,
      stErr, stConn, stCrashed>>

scanVars == <<scCap, scDeadline, scBrowse, scChan, scClosed, scPeers, scpc, scSeen>>

writerVars == <<wrWire, wrClosed, wrCalls>>

readerVars == <<frStream, frFramed, frPos, frCurrChunk, frEof, frCalls>>

historyVars == <<hsEntries, hsMu, hsCallers, hsIssued, hsLog, hsBase, hsFile, hsLoader>>

progressVars == <<sProgress, rProgress>>

lateVars == <<readerVars, historyVars, progressVars>>

moreVars == <<namingVars, startupVars, scanVars, writerVars, lateVars>>

vars ==
    <<sessionVars, transferVars, serveVars, appVars, unzipVars, chunkVars,
      headerVars, policyVars, moreVars>>

\* What the actions of one component leave alone.
outsideTransfer ==
    <<serveVars, appVars, unzipVars, chunkVars, headerVars, policyVars,
      namingVars, startupVars, scanVars, writerVars, readerVars, historyVars>>

outsideServe == <<transferVars, appVars, unzipVars, chunkVars, headerVars, policyVars, moreVars>>

outsideApp ==
    <<sessionVars, transferVars, serveVars, unzipVars, chunkVars, headerVars, policyVars, moreVars>>

outsideUnzip ==
    <<sessionVars, transferVars, serveVars, appVars, chunkVars, headerVars, policyVars, moreVars>>

outsideChunk ==
    <<sessionVars, transferVars, serveVars, appVars, unzipVars, headerVars, policyVars, moreVars>>

outsideHeader ==
    <<sessionVars, transferVars, serveVars, appVars, unzipVars, chunkVars, policyVars, moreVars>>

outsidePolicy ==
    <<sessionVars, transferVars, serveVars, appVars, unzipVars, chunkVars, headerVars, moreVars>>

coreVars ==
    <<sessionVars, transferVars, serveVars, appVars, unzipVars, chunkVars,
      headerVars, policyVars>>

outsideNaming == <<coreVars, startupVars, scanVars, writerVars, lateVars>>

outsideStartup == <<coreVars, namingVars, scanVars, writerVars, lateVars>>

outsideScan == <<coreVars, namingVars, startupVars, writerVars, lateVars>>

outsideWriter == <<coreVars, namingVars, startupVars, scanVars, lateVars>>

earlierVars == <<coreVars, namingVars, startupVars, scanVars, writerVars>>

outsideReader == <<earlierVars, historyVars, progressVars>>

outsideHistory == <<earlierVars, readerVars, progressVars>>

\* ------------------------------------------------------------ inputs

FilePaths == { Str(<<"a",".","t","x","t">>), Str(<<"d","/","b",".","j","p","g">>) }

DirPaths == { Str(<<"p",".","g","o">>) }

Absent == [kind |-> "absent", data |-> <<>>]

Directory == [kind |-> "dir", data |-> <<>>]

RegularFile(d) == [kind |-> "file", data |-> d]

Targets ==
    {Absent, Directory} \cup {RegularFile(d) : d \in SeqsUpTo(ContentBytes, MaxTargetLen)}

\* Offsets a client that is not this repository's receiver may request.
RogueOffsets(size) == (0 - 1)..(size + 1)

fileSize == Len(content)

FileHeader ==
    [ name        |-> Base(inputPath),
      size        |-> fileSize,
      is_archive  |-> isDir,
      compression |-> getCompressionMethod(inputPath, isDir) ]

\* ------------------------------------------------------------ components at rest

SessionAtRest ==
    /\ inputPath = <<>> /\ isDir = FALSE /\ content = <<>>
    /\ peer = "none" /\ target0 = Absent

TransferAtRest ==
    /\ hdr = <<>> /\ r2s = <<>> /\ wire = <<>>
    /\ sClosed = FALSE /\ rClosed = FALSE /\ tamper = "none"
    /\ spc = "idle"
    /\ seeks = <<>> /\ sPos = 0 /\ sReadBytes = <<>> /\ sBuf = <<>> /\ sHash = <<>>
    /\ zOut = <<>> /\ nChunks = 0 /\ sFooter = <<>> /\ sErr = "none"
    /\ onComplete = 0 /\ onError = 0 /\ sTrace = <<>>
    /\ rpc = "idle"
    /\ rHeader = <<>> /\ target = Absent /\ temp = Absent /\ openMode = "none"
    /\ rOffset = 0 /\ rpos = 0 /\ rHash = <<>> /\ currChunk = U32Zero /\ zbuf = <<>>
    /\ rGot = <<>> /\ rFooter = <<>> /\ rErr = "none" /\ rComplete = 0
    /\ extracted = FALSE /\ rTrace = <<>>

ServeAtRest ==
    /\ lifecycle = "idle" /\ ctxDone = FALSE /\ listener = "none"
    /\ archive = "none" /\ archivesCreated = 0 /\ promptMu = 0
    /\ handlers = <<>> /\ clients = <<>>
    /\ crashed = FALSE /\ overlap = FALSE

AppAtRest ==
    /\ isSending = FALSE /\ senderCancel = 0
    /\ sessions = <<>> /\ callers = <<>>

UnzipAtRest ==
    /\ dest = <<>> /\ zipFiles = <<>> /\ zi = 0
    /\ fsPaths = <<>> /\ unzipErr = "none"

ChunkAtRest ==
    /\ cwS = <<>> /\ cwLeft = <<>> /\ cwWire = <<>> /\ cwClosed = FALSE
    /\ crPos = 0 /\ crCurrChunk = U32Zero /\ crEof = FALSE /\ crOut = <<>>
    /\ crErr = "nil"

HeaderAtRest ==
    /\ annLen = 0 /\ annPayload = "none" /\ annHeader = <<>>
    /\ xTarget = Absent /\ xpc = "idle" /\ xErr = "none" /\ xOps = <<>>

PolicyAtRest ==
    /\ polName = <<>> /\ polIsDir = FALSE /\ polModes = <<>>

NamingAtRest ==
    /\ nmName = <<>> /\ nmDir = <<>> /\ nmArchive = FALSE
    /\ nmSafe = <<>> /\ nmOpens = <<>> /\ nmpc = "idle"

StartupAtRest ==
    /\ stPath = "file" /\ stAllowNil = FALSE /\ stpc = "idle"
    /\ stTemp = "none" /\ stListener = "none" /\ stPorts = 0
    /\ stAnnounce = "none" /\ stCtxDone = FALSE /\ stErr = "none"
    /\ stConn = "none" /\ stCrashed = FALSE

ScanAtRest ==
    /\ scCap = 0 /\ scDeadline = FALSE /\ scBrowse = "idle"
    /\ scChan = <<>> /\ scClosed = FALSE /\ scPeers = <<>>
    /\ scpc = "idle" /\ scSeen = 0

WriterAtRest ==
    /\ wrWire = <<>> /\ wrClosed = FALSE /\ wrCalls = <<>>

ReaderAtRest ==
    /\ frStream = <<>> /\ frFramed = 0 /\ frPos = 0 /\ frCurrChunk = U32Zero
    /\ frEof = FALSE /\ frCalls = <<>>

HistoryAtRest ==
    /\ hsEntries = <<>> /\ hsMu = 0 /\ hsCallers = <<>> /\ hsIssued = 0
    /\ hsLog = <<>> /\ hsBase = 0
    /\ hsFile = [valid |-> FALSE, entries |-> <<>>] /\ hsLoader = "idle"

ProgressAtRest == sProgress = <<>> /\ rProgress = <<>>

LateAtRest == ReaderAtRest /\ HistoryAtRest /\ ProgressAtRest

MoreAtRest ==
    NamingAtRest /\ StartupAtRest /\ ScanAtRest /\ WriterAtRest /\ LateAtRest

EarlierAtRest == NamingAtRest /\ StartupAtRest /\ ScanAtRest /\ WriterAtRest

CoreAtRest ==
    /\ SessionAtRest /\ TransferAtRest /\ ServeAtRest /\ AppAtRest
    /\ UnzipAtRest /\ ChunkAtRest /\ HeaderAtRest /\ PolicyAtRest

\* ------------------------------------------------------------ one connection

Init ==
    /\ MoreAtRest
    /\ ServeAtRest /\ AppAtRest /\ UnzipAtRest /\ ChunkAtRest
    /\ HeaderAtRest /\ PolicyAtRest
    /\ inputPath \in FilePaths \cup DirPaths
    /\ isDir = (inputPath \in DirPaths)
    /\ content \in SeqsUpTo(ContentBytes, MaxLen)
    /\ isDir => Len(content) > 0
    /\ peer \in {"honest", "rogue"}
    /\ target0 \in Targets
    /\ peer = "rogue" => target0 = Absent
    /\ hdr = <<>> /\ r2s = <<>> /\ wire = <<>>
    /\ sClosed = FALSE /\ rClosed = FALSE /\ tamper = "none"
    /\ spc = "accepted"
    /\ seeks = <<>> /\ sPos = 0 /\ sReadBytes = <<>> /\ sBuf = <<>> /\ sHash = <<>>
    /\ zOut = <<>> /\ nChunks = 0 /\ sFooter = <<>> /\ sErr = "none"
    /\ onComplete = 0 /\ onError = 0 /\ sTrace = <<>>
    /\ rpc = IF peer = "honest" THEN "dial" ELSE "rogue"
    /\ rHeader = <<>>
    /\ target = target0
    /\ temp = Absent
    /\ openMode = "none"
    /\ rOffset = 0 /\ rpos = 0 /\ rHash = <<>> /\ currChunk = U32Zero /\ zbuf = <<>>
    /\ rGot = <<>> /\ rFooter = <<>> /\ rErr = "none" /\ rComplete = 0
    /\ extracted = FALSE /\ rTrace = <<>>

\* ------------------------------------------------------------ sender

Note(trace, tag) ==
    IF Len(trace) > 0 /\ trace[Len(trace)] = tag THEN trace ELSE Append(trace, tag)

\* A failed handler that reports nothing.
SenderFails_Silent(err) ==
    /\ spc' = "failed"
    /\ sErr' = err
    /\ onError' = onError
    /\ sClosed' = TRUE

\* handleTransfer returned err: OnError is invoked and the deferred c.Close runs.
SenderFails(err) ==
    /\ spc' = "failed"
    /\ sErr' = err
    /\ onError' = onError + 1
    /\ sClosed' = TRUE

\* The header is written before the approval is looked at.
Approve_HeaderFirst ==
    /\ spc = "accepted"
    /\ hdr' = Append(hdr, FileHeader)
    /\ \E approved \in BOOLEAN :
          IF approved
          THEN /\ spc' = "readReq"
               /\ sClosed' = sClosed
          ELSE /\ spc' = "rejected"
               /\ sClosed' = TRUE
    /\ sTrace' = sTrace \o <<"approve", "header">>
    /\ UNCHANGED <<outsideTransfer, progressVars>>
    /\ UNCHANGED <<sessionVars, receiverVars, r2s, wire, rClosed, tamper>>
    /\ UNCHANGED <<seeks, sPos, sReadBytes, sBuf, sHash, zOut, nChunks, sFooter, sErr,
                   onComplete, onError>>

\* The approval callback is consulted; a denial closes the connection.
Approve ==
    /\ spc = "accepted"
    /\ \E approved \in BOOLEAN :
          IF approved
          THEN /\ spc' = "sendHeader"
               /\ sClosed' = sClosed
          ELSE /\ spc' = "rejected"
               /\ sClosed' = TRUE
    /\ sTrace' = Append(sTrace, "approve")
    /\ UNCHANGED <<outsideTransfer, progressVars>>
    /\ UNCHANGED <<sessionVars, receiverVars, hdr, r2s, wire, rClosed, tamper>>
    /\ UNCHANGED <<seeks, sPos, sReadBytes, sBuf, sHash, zOut, nChunks, sFooter, sErr,
                   onComplete, onError>>

\* Header length and header JSON are written.
SendHeader ==
    /\ spc = "sendHeader"
    /\ hdr' = Append(hdr, FileHeader)
    /\ spc' = "readReq"
    /\ sTrace' = Append(sTrace, "header")
    /\ UNCHANGED <<outsideTransfer, progressVars>>
    /\ UNCHANGED <<sessionVars, receiverVars, r2s, wire, sClosed, rClosed, tamper>>
    /\ UNCHANGED <<seeks, sPos, sReadBytes, sBuf, sHash, zOut, nChunks, sFooter, sErr,
                   onComplete, onError>>

\* A clamp to the size instead of to 0.
ClampOffset_ToSize(offset, size) == IF offset > size THEN size ELSE offset

\* offset := req.Offset; if offset > fileSize { offset = 0 }
ClampOffset(offset, size) == IF offset > size THEN 0 ELSE offset

\* file.Seek(offset, 0) fails on a negative offset.
SeekFails(offset) == offset < 0

\* The closer is never run: the footer follows the copy directly.
AfterCopy_NoClose == "footer"

\* The source reached its end: the next operation on the connection.
AfterCopy == IF FileHeader.compression = CompressionZstd THEN "close" ELSE "footer"

\* The request record is read, the source is opened and positioned.
ReadRequest ==
    /\ spc = "readReq"
    /\ Len(r2s) > 0
    /\ LET offset == ClampOffset(r2s[1].offset, fileSize)
       IN  /\ seeks' = Append(seeks, offset)
           /\ sTrace' = Append(sTrace, "request")
           /\ IF SeekFails(offset)
              THEN /\ SenderFails("seek")
                   /\ UNCHANGED <<sPos, onComplete>>
              ELSE /\ spc' = "stream"
                   /\ sPos' = offset
                   /\ UNCHANGED <<sErr, onError, onComplete, sClosed>>
    /\ UNCHANGED <<outsideTransfer, progressVars>>
    /\ UNCHANGED <<sessionVars, receiverVars, hdr, r2s, wire, rClosed, tamper>>
    /\ UNCHANGED <<sReadBytes, sBuf, sHash, zOut, nChunks, sFooter>>

\* The peer closed the connection before sending a request.
ReadRequestEOF ==
    /\ spc = "readReq"
    /\ Len(r2s) = 0
    /\ rClosed
    /\ SenderFails("request")
    /\ UNCHANGED <<outsideTransfer, progressVars>>
    /\ UNCHANGED <<sessionVars, receiverVars, hdr, r2s, wire, rClosed, tamper>>
    /\ UNCHANGED <<seeks, sPos, sReadBytes, sBuf, sHash, zOut, nChunks, sFooter,
                   onComplete, sTrace>>

\* progressReader.Read: read += n, and a record of read + offset when n > 0.
SendProgress(read, n) ==
    IF n > 0
    THEN Append(sProgress, [bytes |-> (read + n) + seeks[1], total |-> fileSize])
    ELSE sProgress

\* One Read of io.CopyBuffer on the source, through progressReader.  At the
\* end of the source the copy is over; otherwise the bytes go into the encoder
\* (zstd), which holds them until it is closed, or are handed to
\* io.MultiWriter(conn, hasher).
Stream ==
    /\ spc = "stream"
    /\ LET n     == Min(CopyBuf, fileSize - sPos)
           bytes == SubSeq(content, sPos + 1, sPos + n)
       IN  /\ sPos' = sPos + n
           /\ sReadBytes' = sReadBytes \o bytes
           /\ sProgress' = SendProgress(sPos - seeks[1], n)
           /\ IF n = 0
              THEN /\ spc' = AfterCopy
                   /\ zOut' = IF FileHeader.compression = CompressionZstd
                               THEN ZstdEncode(sReadBytes) ELSE zOut
                   /\ UNCHANGED sBuf
              ELSE IF FileHeader.compression = CompressionZstd
              THEN UNCHANGED <<spc, zOut, sBuf>>
              ELSE /\ spc' = "write"
                   /\ sBuf' = bytes
                   /\ UNCHANGED zOut
    /\ UNCHANGED <<outsideTransfer, rProgress>>
    /\ UNCHANGED <<sessionVars, receiverVars, connVars>>
    /\ UNCHANGED <<seeks, sHash, nChunks, sFooter, sErr, onComplete, onError, sTrace>>

\* io.MultiWriter(conn, hasher).Write of the bytes read: the connection first,
\* then the hasher.
StreamWrite ==
    /\ spc = "write"
    /\ wire' = wire \o sBuf
    /\ sHash' = sHash \o sBuf
    /\ sBuf' = <<>>
    /\ spc' = "stream"
    /\ sTrace' = Note(sTrace, "content")
    /\ UNCHANGED <<outsideTransfer, progressVars>>
    /\ UNCHANGED <<sessionVars, receiverVars, hdr, r2s, sClosed, rClosed, tamper>>
    /\ UNCHANGED <<seeks, sPos, sReadBytes, zOut, nChunks, sFooter, sErr,
                   onComplete, onError>>

\* The sizes of the encoder's next Write call: all it holds, or first the
\* frame header (the magic number) alone and then the blocks.
WriteSizes(out, written) ==
    IF written = 0 /\ Len(out) > Len(ZstdMagic)
    THEN {Len(ZstdMagic), Len(out)}
    ELSE {Len(out)}

\* zstdWriter.Close: one Write call of the encoder on the ChunkedWriter, whose
\* underlying writer is io.MultiWriter(conn, hasher).  The length prefix is
\* written; the data is the Write that follows.
EmitChunk ==
    /\ spc = "close"
    /\ Len(zOut) > 0
    /\ \E k \in WriteSizes(zOut, nChunks) :
          /\ LET p      == Take(zOut, k)
                 out    == ChunkedWrite(p)
                 prefix == Take(out, Len(out) - Len(p))
             IN  /\ wire' = wire \o prefix
                 /\ sHash' = sHash \o prefix
                 /\ sBuf' = Drop(out, Len(out) - Len(p))
          /\ zOut' = Drop(zOut, k)
    /\ spc' = "chunk"
    /\ nChunks' = nChunks + 1
    /\ sTrace' = Note(sTrace, "content")
    /\ UNCHANGED <<outsideTransfer, progressVars>>
    /\ UNCHANGED <<sessionVars, receiverVars, hdr, r2s, sClosed, rClosed, tamper>>
    /\ UNCHANGED <<seeks, sPos, sReadBytes, sFooter, sErr, onComplete, onError>>

\* c.w.Write(p): the data of the chunk.
EmitChunkData ==
    /\ spc = "chunk"
    /\ wire' = wire \o sBuf
    /\ sHash' = sHash \o sBuf
    /\ sBuf' = <<>>
    /\ spc' = "close"
    /\ UNCHANGED <<outsideTransfer, progressVars>>
    /\ UNCHANGED <<sessionVars, receiverVars, hdr, r2s, sClosed, rClosed, tamper>>
    /\ UNCHANGED <<seeks, sPos, sReadBytes, zOut, nChunks, sFooter, sErr,
                   onComplete, onError, sTrace>>

\* chunked.Close: the zero-length sentinel.
CloseChunked ==
    /\ spc = "close"
    /\ Len(zOut) = 0
    /\ wire' = wire \o ChunkedClose
    /\ sHash' = sHash \o ChunkedClose
    /\ spc' = "footer"
    /\ sTrace' = Append(sTrace, "sentinel")
    /\ UNCHANGED <<outsideTransfer, progressVars>>
    /\ UNCHANGED <<sessionVars, receiverVars, hdr, r2s, sClosed, rClosed, tamper>>
    /\ UNCHANGED <<seeks, sPos, sReadBytes, sBuf, zOut, nChunks, sFooter, sErr,
                   onComplete, onError>>

\* checksum := hasher.Sum(nil); conn.Write(checksum); return nil.
SendFooter ==
    /\ spc = "footer"
    /\ wire' = wire \o Digest(sHash)
    /\ sFooter' = Append(sFooter, Digest(sHash))
    /\ spc' = "done"
    /\ onComplete' = onComplete + 1
    /\ sClosed' = TRUE
    /\ sTrace' = Append(sTrace, "footer")
    /\ UNCHANGED <<outsideTransfer, progressVars>>
    /\ UNCHANGED <<sessionVars, receiverVars, hdr, r2s, rClosed, tamper>>
    /\ UNCHANGED <<seeks, sPos, sReadBytes, sBuf, sHash, zOut, nChunks, sErr, onError>>

\* A write on a connection the peer has closed may fail: the header, the
\* bytes read last, a chunk's length prefix or its data, the sentinel, the
\* footer.
WriteFails ==
    /\ spc \in {"sendHeader", "write", "close", "chunk", "footer"}
    /\ rClosed
    /\ SenderFails("write")
    /\ UNCHANGED <<outsideTransfer, progressVars>>
    /\ UNCHANGED <<sessionVars, receiverVars, hdr, r2s, wire, rClosed, tamper>>
    /\ UNCHANGED <<seeks, sPos, sReadBytes, sBuf, sHash, zOut, nChunks, sFooter,
                   onComplete, sTrace>>

\* ------------------------------------------------------------ rogue peer

RogueRequest ==
    /\ peer = "rogue"
    /\ Len(r2s) = 0
    /\ ~rClosed
    /\ \E o \in RogueOffsets(fileSize) : r2s' = <<[offset |-> o]>>
    /\ UNCHANGED <<outsideTransfer, progressVars>>
    /\ UNCHANGED <<sessionVars, senderVars, receiverVars, hdr, wire, sClosed,
                   rClosed, tamper>>

RogueDisconnect ==
    /\ peer = "rogue"
    /\ ~rClosed
    /\ rClosed' = TRUE
    /\ UNCHANGED <<outsideTransfer, progressVars>>
    /\ UNCHANGED <<sessionVars, senderVars, receiverVars, hdr, r2s, wire, sClosed,
                   tamper>>

\* ------------------------------------------------------------ receiver

\* Bytes of wire the receiver has not read yet.
Avail == Len(wire) - rpos

\* ReceiveConnectWithOptions returned err; the deferred conn.Close runs.
ReceiverFails(err) ==
    /\ rpc' = "error"
    /\ rErr' = err
    /\ rClosed' = TRUE

\* destFile.Name() on the nil file of a failed open: ReceiveConnectWithOptions
\* panics; nothing is returned, the connection goes down with the call.
ReceiverPanics ==
    /\ rpc' = "panic"
    /\ rClosed' = TRUE
    /\ UNCHANGED rErr

\* A resume that opens for append but requests the whole content.
Negotiate_NoOffset(header, t) ==
    IF header.is_archive
    THEN [offset |-> 0, mode |-> "temp"]
    ELSE IF t.kind = "file"
         THEN IF Len(t.data) < header.size
              THEN [offset |-> 0, mode |-> "append"]
              ELSE [offset |-> 0, mode |-> "create"]
         ELSE IF t.kind = "dir"
              THEN [offset |-> 0, mode |-> "fail"]
              ELSE [offset |-> 0, mode |-> "create"]

\* A resume that also takes a complete file for a partial one.
Negotiate_Inclusive(header, t) ==
    IF header.is_archive
    THEN [offset |-> 0, mode |-> "temp"]
    ELSE IF t.kind = "file"
         THEN IF Len(t.data) <= header.size
              THEN [offset |-> Len(t.data), mode |-> "append"]
              ELSE [offset |-> 0, mode |-> "create"]
         ELSE IF t.kind = "dir"
              THEN [offset |-> 0, mode |-> "fail"]
              ELSE [offset |-> 0, mode |-> "create"]

\* The resume decision on (is_archive, target state): the offset to request
\* and how destFile is opened.  A target that is a directory is not a resume
\* candidate, and os.Create on it fails ("fail").
Negotiate(header, t) ==
    IF header.is_archive
    THEN [offset |-> 0, mode |-> "temp"]
    ELSE IF t.kind = "file"
         THEN IF Len(t.data) < header.size
              THEN [offset |-> Len(t.data), mode |-> "append"]
              ELSE [offset |-> 0, mode |-> "create"]
         ELSE IF t.kind = "dir"
              THEN [offset |-> 0, mode |-> "fail"]
              ELSE [offset |-> 0, mode |-> "create"]

\* The header record is read, the resume offset decided, destFile opened.
\* The error of an open made for a file that is no archive is assigned to the
\* err of the if statement around it, so that the test that follows sees none
\* and destFile, nil, is used.
ReadHeader ==
    /\ rpc = "readHeader"
    /\ Len(hdr) > 0
    /\ rHeader' = <<hdr[1]>>
    /\ rTrace' = Append(rTrace, "header")
    /\ LET d == Negotiate(hdr[1], target)
       IN  /\ openMode' = d.mode
           /\ rOffset' = d.offset
           /\ CASE d.mode = "temp" ->
                    /\ temp' = RegularFile(<<>>)
                    /\ rpc' = "sendReq"
                    /\ UNCHANGED <<target, rErr, rClosed>>
                [] d.mode = "append" ->
                    /\ rpc' = "sendReq"
                    /\ UNCHANGED <<target, temp, rErr, rClosed>>
                [] d.mode = "create" ->
                    /\ target' = RegularFile(<<>>)
                    /\ rpc' = "sendReq"
                    /\ UNCHANGED <<temp, rErr, rClosed>>
                [] d.mode = "fail" ->
                    /\ ReceiverPanics
                    /\ UNCHANGED <<target, temp>>
    /\ UNCHANGED <<outsideTransfer, progressVars>>
    /\ UNCHANGED <<sessionVars, senderVars, hdr, r2s, wire, sClosed, tamper>>
    /\ UNCHANGED <<rpos, rHash, currChunk, zbuf, rGot, rFooter, rComplete, extracted>>

\* tls.Dial returns the connection: the handshake is answered by the sender's
\* side inside the handler's first Write, the one of the header length.
DialReturns ==
    /\ rpc = "dial"
    /\ Len(hdr) > 0
    /\ rpc' = "readHeader"
    /\ UNCHANGED <<outsideTransfer, progressVars>>
    /\ UNCHANGED <<sessionVars, senderVars, connVars>>
    /\ UNCHANGED <<rHeader, target, temp, openMode, rOffset, rpos, rHash, currChunk,
                   zbuf, rGot, rFooter, rErr, rComplete, extracted, rTrace>>

\* tls.Dial fails: the sender closed the connection before any handshake (a
\* denial).  "failed to connect to sender" is returned; no conn was obtained.
DialFails ==
    /\ rpc = "dial"
    /\ Len(hdr) = 0
    /\ sClosed
    /\ ReceiverFails("connect")
    /\ UNCHANGED <<outsideTransfer, progressVars>>
    /\ UNCHANGED <<sessionVars, senderVars, hdr, r2s, wire, sClosed, tamper>>
    /\ UNCHANGED <<rHeader, target, temp, openMode, rOffset, rpos, rHash, currChunk,
                   zbuf, rGot, rFooter, rComplete, extracted, rTrace>>

\* The request record is written.
SendRequest ==
    /\ rpc = "sendReq"
    /\ r2s' = Append(r2s, [offset |-> rOffset])
    /\ rpc' = "consume"
    /\ rTrace' = Append(rTrace, "request")
    /\ UNCHANGED <<outsideTransfer, progressVars>>
    /\ UNCHANGED <<sessionVars, senderVars, hdr, wire, sClosed, rClosed, tamper>>
    /\ UNCHANGED <<rHeader, target, temp, openMode, rOffset, rpos, rHash, currChunk,
                   zbuf, rGot, rFooter, rErr, rComplete, extracted>>

\* destFile.Write: the temp archive, or the target file (appended, or
\* written from its start after os.Create).
\* recvProgressWriter.Write: written += n, and a record of written + offset
\* when n > 0.
RecvProgress(written, n) ==
    IF n > 0
    THEN Append(rProgress, [bytes |-> (written + n) + rOffset,
                            total |-> rHeader[1].size])
    ELSE rProgress

WriteDest(data) ==
    /\ IF openMode = "temp"
       THEN /\ temp' = RegularFile(temp.data \o data)
            /\ target' = target
       ELSE /\ target' = RegularFile(target.data \o data)
            /\ temp' = temp
    /\ rProgress' = RecvProgress(Len(rGot), Len(data))

\* A limit that is one byte short.
Remaining_Short == rHeader[1].size - rOffset - Len(rGot) - 1

\* No compression: bytes of io.LimitReader(conn, size - offset) still to read.
Remaining == rHeader[1].size - rOffset - Len(rGot)

\* One read of the copy loop without compression; the bytes read are hashed
\* and written to destFile.  The limit reached, or the connection at its
\* end, ends the copy without an error.
CopyPlain ==
    /\ rpc = "consume"
    /\ rHeader[1].compression # CompressionZstd
    /\ IF Remaining > 0 /\ Avail > 0
       THEN LET n     == Min(Min(Avail, Remaining), CopyBuf)
                bytes == SubSeq(wire, rpos + 1, rpos + n)
            IN  /\ rpos' = rpos + n
                /\ rHash' = rHash \o bytes
                /\ rGot' = rGot \o bytes
                /\ WriteDest(bytes)
                /\ rTrace' = Note(rTrace, "content")
                /\ rpc' = rpc
       ELSE /\ Remaining <= 0 \/ sClosed
            /\ rpc' = "footer"
            /\ UNCHANGED <<rpos, rHash, rGot, target, temp, rProgress, rTrace>>
    /\ UNCHANGED <<outsideTransfer, sProgress>>
    /\ UNCHANGED <<sessionVars, senderVars, connVars>>
    /\ UNCHANGED <<rHeader, openMode, rOffset, currChunk, zbuf, rFooter, rErr,
                   rComplete, extracted>>

\* io.CopyBuffer when the ChunkedReader reports its end (the sentinel, or the
\* end of the connection): the copy ends without an error when the decoder
\* was given nothing or a complete frame, and with the decoder's error
\* otherwise.  Every decoded byte has been written by then.
CopyEnds(z) ==
    /\ IF ZstdDecode(z).ok
       THEN /\ rpc' = "footer"
            /\ UNCHANGED <<rErr, rClosed>>
       ELSE ReceiverFails("content")
    /\ UNCHANGED <<rGot, target, temp, rProgress>>

\* ChunkedReader.Read with currChunk = 0: the length prefix is read through
\* io.TeeReader(conn, hasher).
ReadChunkLength ==
    /\ rpc = "consume"
    /\ rHeader[1].compression = CompressionZstd
    /\ currChunk = U32Zero
    /\ rTrace' = Note(rTrace, "content")
    /\ IF Avail >= 4
       THEN LET prefix == SubSeq(wire, rpos + 1, rpos + 4)
                length == FromBE32(prefix)
            IN  /\ rpos' = rpos + 4
                /\ rHash' = rHash \o prefix
                /\ IF length = U32Zero
                   THEN /\ CopyEnds(zbuf)
                        /\ UNCHANGED currChunk
                   ELSE /\ currChunk' = length
                        /\ UNCHANGED <<rpc, rGot, target, temp, rProgress, rErr, rClosed>>
       ELSE /\ sClosed
            /\ rpos' = Len(wire)
            /\ rHash' = rHash \o SubSeq(wire, rpos + 1, Len(wire))
            /\ UNCHANGED currChunk
            /\ IF Avail = 0
               THEN CopyEnds(zbuf)
               ELSE /\ ReceiverFails("content")
                    /\ UNCHANGED <<rGot, target, temp, rProgress>>
    /\ UNCHANGED <<outsideTransfer, sProgress>>
    /\ UNCHANGED <<sessionVars, senderVars, hdr, r2s, wire, sClosed, tamper>>
    /\ UNCHANGED <<rHeader, openMode, rOffset, zbuf, rFooter, rComplete, extracted>>

\* ChunkedReader.Read inside a chunk: at most currChunk bytes are read and
\* hashed; io.CopyBuffer writes to destFile what the decoder gives out of
\* them, and returns the decoder's error when it meets one.  The end of the
\* connection is passed on as the reader's end.
ReadChunkData ==
    /\ rpc = "consume"
    /\ rHeader[1].compression = CompressionZstd
    /\ currChunk # U32Zero
    /\ IF Avail > 0
       THEN LET n       == U32Min(Avail, currChunk)
                bytes   == SubSeq(wire, rpos + 1, rpos + n)
                decoded == ZstdStream(zbuf \o bytes)
                fresh   == Drop(decoded.data, Len(rGot))
            IN  /\ rpos' = rpos + n
                /\ rHash' = rHash \o bytes
                /\ zbuf' = zbuf \o bytes
                /\ currChunk' = U32Sub(currChunk, n)
                /\ rGot' = rGot \o fresh
                /\ WriteDest(fresh)
                /\ IF decoded.err
                   THEN ReceiverFails("content")
                   ELSE UNCHANGED <<rpc, rErr, rClosed>>
       ELSE /\ sClosed
            /\ CopyEnds(zbuf)
            /\ UNCHANGED <<rpos, rHash, zbuf, currChunk>>
    /\ UNCHANGED <<outsideTransfer, sProgress>>
    /\ UNCHANGED <<sessionVars, senderVars, hdr, r2s, wire, sClosed, tamper>>
    /\ UNCHANGED <<rHeader, openMode, rOffset, rFooter, rComplete, extracted, rTrace>>

\* A comparison that accepts every footer.
ChecksumOk_Always(calculated, received) == TRUE

\* bytes.Equal(calculatedChecksum, receivedChecksum)
ChecksumOk(calculated, received) == calculated = received

\* A mismatch branch that removes the file the session wrote.
MismatchReturn_Remove ==
    /\ ReceiverFails("checksum")
    /\ target' = IF openMode = "temp" THEN target ELSE Absent
    /\ temp' = IF openMode = "temp" THEN Absent ELSE temp

\* The return on a checksum mismatch: an error, destFile closed by its defer,
\* nothing removed.
MismatchReturn ==
    /\ ReceiverFails("checksum")
    /\ UNCHANGED <<target, temp>>

\* io.ReadFull(conn, receivedChecksum) and the comparison with hasher.Sum.
ReadFooter ==
    /\ rpc = "footer"
    /\ IF Avail >= DigestLen
       THEN LET received == SubSeq(wire, rpos + 1, rpos + DigestLen)
            IN  /\ rpos' = rpos + DigestLen
                /\ rFooter' = Append(rFooter, received)
                /\ rTrace' = Append(rTrace, "footer")
                /\ IF ChecksumOk(Digest(rHash), received)
                   THEN IF rHeader[1].is_archive
                        THEN /\ rpc' = "extract"
                             /\ UNCHANGED <<rErr, rClosed, rComplete, target, temp>>
                        ELSE /\ rpc' = "done"
                             /\ rComplete' = rComplete + 1
                             /\ rClosed' = TRUE
                             /\ UNCHANGED <<rErr, target, temp>>
                   ELSE /\ MismatchReturn
                        /\ UNCHANGED rComplete
       ELSE /\ sClosed
            /\ ReceiverFails("footer")
            /\ UNCHANGED <<rpos, rFooter, rComplete, rTrace, target, temp>>
    /\ UNCHANGED <<outsideTransfer, progressVars>>
    /\ UNCHANGED <<sessionVars, senderVars, hdr, r2s, wire, sClosed, tamper>>
    /\ UNCHANGED <<rHeader, openMode, rOffset, rHash, currChunk, zbuf,
                   rGot, extracted>>

\* An extraction that leaves the temporary archive behind.
Extract_KeepTemp ==
    /\ rpc = "extract"
    /\ \E ok \in BOOLEAN :
          IF ok
          THEN /\ extracted' = TRUE
               /\ rpc' = "done"
               /\ rComplete' = rComplete + 1
               /\ rClosed' = TRUE
               /\ UNCHANGED <<rErr, temp>>
          ELSE /\ ReceiverFails("unzip")
               /\ UNCHANGED <<extracted, temp, rComplete>>
    /\ UNCHANGED <<outsideTransfer, progressVars>>
    /\ UNCHANGED <<sessionVars, senderVars, hdr, r2s, wire, sClosed, tamper>>
    /\ UNCHANGED <<rHeader, target, openMode, rOffset, rpos, rHash, currChunk, zbuf,
                   rGot, rFooter, rTrace>>

\* unzip(outPath, downloadDir), then os.Remove(outPath) when it succeeded.
Extract ==
    /\ rpc = "extract"
    /\ \E ok \in BOOLEAN :
          IF ok
          THEN /\ extracted' = TRUE
               /\ temp' = Absent
               /\ rpc' = "done"
               /\ rComplete' = rComplete + 1
               /\ rClosed' = TRUE
               /\ UNCHANGED rErr
          ELSE /\ ReceiverFails("unzip")
               /\ UNCHANGED <<extracted, temp, rComplete>>
    /\ UNCHANGED <<outsideTransfer, progressVars>>
    /\ UNCHANGED <<sessionVars, senderVars, hdr, r2s, wire, sClosed, tamper>>
    /\ UNCHANGED <<rHeader, target, openMode, rOffset, rpos, rHash, currChunk, zbuf,
                   rGot, rFooter, rTrace>>

\* ------------------------------------------------------------ transit

\* Values a byte in transit may be altered to.
TamperValues(b) == {v \in {0, b - 1, b + 1} : v >= 0 /\ v # b}

\* The footer is the last DigestLen bytes the sender wrote.
InFooter(i) == Len(sFooter) > 0 /\ i > Len(wire) - DigestLen

\* One byte of the content region or of the footer is altered before the
\* receiver reads it.
Tamper ==
    /\ peer = "honest"
    /\ tamper = "none"
    /\ \E i \in (rpos + 1)..Len(wire) :
          \E v \in TamperValues(wire[i]) :
             /\ wire' = [wire EXCEPT ![i] = v]
             /\ tamper' = IF InFooter(i) THEN "footer" ELSE "content"
    /\ UNCHANGED <<outsideTransfer, progressVars>>
    /\ UNCHANGED <<sessionVars, senderVars, receiverVars, hdr, r2s, sClosed, rClosed>>

\* ------------------------------------------------------------ specification

Next ==
    \/ Approve
    \/ SendHeader
    \/ ReadRequest
    \/ ReadRequestEOF
    \/ Stream
    \/ StreamWrite
    \/ EmitChunk
    \/ EmitChunkData
    \/ CloseChunked
    \/ SendFooter
    \/ WriteFails
    \/ RogueRequest
    \/ RogueDisconnect
    \/ DialReturns
    \/ DialFails
    \/ ReadHeader
    \/ SendRequest
    \/ CopyPlain
    \/ ReadChunkLength
    \/ ReadChunkData
    \/ ReadFooter
    \/ Extract
    \/ Tamper

Spec == Init /\ [][Next]_vars

\* ------------------------------------------------------------ a sender session

\* Longest source content of a session serving several connections.
ServeMaxLen == 1

\* Largest header length the receiver accepts.
MaxRecordLen == 65536

\* Connections dialed to one sender session.
Conns == {1, 2}

RECURSIVE Digits(_)
Digits(n) == IF n < 10 THEN 1 ELSE 1 + Digits(n \div 10)

\* len(json.Marshal(TransferRequest{Offset: offset})): {"offset":<offset>}
RequestLen(offset) ==
    IF offset < 0 THEN 12 + Digits(0 - offset) ELSE 11 + Digits(offset)

\* A request record on the wire: the announced length, what follows it
\* ("valid": JSON of that length, padded with white space where longer than
\* RequestLen; "malformed": bytes that are no JSON; "short": fewer bytes than
\* announced and then the end of the connection; "none": nothing), and the
\* offset a valid payload carries.
HonestRequest(offset) ==
    [len |-> RequestLen(offset), payload |-> "valid", offset |-> offset]

\* The peer closed the connection without writing a request.
NoRequest == [len |-> 0, payload |-> "eof", offset |-> 0]

RogueRequests ==
    { NoRequest,
      [len |-> 0 - 1, payload |-> "none", offset |-> 0],
      [len |-> RequestLen(0), payload |-> "malformed", offset |-> 0],
      [len |-> RequestLen(0), payload |-> "short", offset |-> 0],
      [len |-> RequestLen(0 - 1), payload |-> "valid", offset |-> 0 - 1] }
    \cup { [len |-> n, payload |-> "valid", offset |-> 0] :
              n \in {MaxRecordLen, MaxRecordLen + 1} }

HandlerIdle ==
    [ pc     |-> "none",      \* position of the handler goroutine
      hdr    |-> <<>>,        \* header records written
      req    |-> <<>>,        \* request records read
      wire   |-> <<>>,        \* bytes written after the header
      plan   |-> <<>>,        \* writes of the content region still to make
      seeks  |-> <<>>,        \* offsets passed to file.Seek
      err    |-> "none",      \* the error handleTransfer returned
      report |-> "none",      \* "complete" (OnComplete) or "error" (OnError)
      late   |-> FALSE ]      \* accepted after the context was cancelled

ClientIdle ==
    [ kind   |-> "none",      \* "honest": this repository's receiver; "rogue"
      pc     |-> "idle",      \* position of ReceiveConnectWithOptions
      header |-> <<>>,        \* the header read
      req    |-> <<>>,        \* request records written
      pos    |-> 0,           \* bytes read of what follows the header
      curr   |-> U32Zero,     \* ChunkedReader.currChunk
      zbuf   |-> <<>>,        \* bytes the ChunkedReader delivered to the decoder
      got    |-> <<>>,        \* the bytes written to destFile
      verified |-> FALSE,     \* the footer was found equal to the computed checksum
      result |-> "pending" ]  \* "ok", "checksum" or "error"

InitServe ==
    /\ MoreAtRest
    /\ TransferAtRest /\ AppAtRest /\ UnzipAtRest /\ ChunkAtRest
    /\ HeaderAtRest /\ PolicyAtRest
    /\ inputPath \in FilePaths \cup DirPaths
    /\ isDir = (inputPath \in DirPaths)
    /\ content \in SeqsUpTo(ContentBytes, ServeMaxLen)
    /\ isDir => Len(content) > 0
    /\ peer = "none" /\ target0 = Absent
    /\ lifecycle = "preparing" /\ ctxDone = FALSE /\ listener = "none"
    /\ archive = "none" /\ archivesCreated = 0 /\ promptMu = 0
    /\ handlers = [c \in Conns |-> HandlerIdle]
    /\ clients = [c \in Conns |-> ClientIdle]
    /\ crashed = FALSE /\ overlap = FALSE

\* The sender's end of connection c is closed: the handler returned (deferred
\* c.Close), the process is gone, or the listener was closed with the
\* connection still waiting to be accepted.
SenderClosed(c) ==
    \/ crashed
    \/ handlers[c].pc \in {"done", "failed", "rejected"}
    \/ handlers[c].pc = "none" /\ clients[c].pc # "idle" /\ listener # "open"

\* StartSenderWithOptions up to tls.Listen: the input is inspected, a
\* directory is archived into a temp file once, the listener is opened.
Prepare ==
    /\ lifecycle = "preparing"
    /\ lifecycle' = "announcing"
    /\ listener' = "open"
    /\ IF isDir
       THEN /\ archive' = "present"
            /\ archivesCreated' = archivesCreated + 1
       ELSE UNCHANGED <<archive, archivesCreated>>
    /\ UNCHANGED <<ctxDone, promptMu, handlers, clients, crashed, overlap>>
    /\ UNCHANGED <<sessionVars, outsideServe>>

\* The steps of StartSenderWithOptions that can fail before the listener is
\* open: os.CreateTemp and zipDirectory (a directory only), then the
\* certificate and tls.Listen.
PrepareSteps == IF isDir THEN {"createTemp", "zip", "listen"} ELSE {"listen"}

\* StartSenderWithOptions returns an error before the listener is open:
\* os.CreateTemp fails (no archive was made), archiving fails (the temp file
\* is removed), or the certificate or the listener fails (the deferred
\* cleanup removes the temp file).
PrepareFails(step) ==
    /\ lifecycle = "preparing"
    /\ lifecycle' = "returned"
    /\ IF isDir
       THEN /\ archive' = IF step = "createTemp" THEN archive ELSE "removed"
            /\ archivesCreated' = archivesCreated + 1
       ELSE UNCHANGED <<archive, archivesCreated>>
    /\ UNCHANGED <<ctxDone, listener, promptMu, handlers, clients, crashed, overlap>>
    /\ UNCHANGED <<sessionVars, outsideServe>>

\* The port is reported, discovery.Announce succeeds, the goroutine that
\* waits for the context is started: the accept loop begins.
Announce ==
    /\ ~crashed
    /\ lifecycle = "announcing"
    /\ lifecycle' = "listening"
    /\ UNCHANGED <<ctxDone, listener, archive, archivesCreated, promptMu, handlers,
                   clients, crashed, overlap>>
    /\ UNCHANGED <<sessionVars, outsideServe>>

\* discovery.Announce fails: StartSenderWithOptions returns the error, the
\* deferred calls close the listener and remove the temp archive.
AnnounceFails ==
    /\ ~crashed
    /\ lifecycle = "announcing"
    /\ lifecycle' = "returned"
    /\ listener' = "closed"
    /\ archive' = IF archive = "present" THEN "removed" ELSE archive
    /\ UNCHANGED <<ctxDone, archivesCreated, promptMu, handlers, clients, crashed,
                   overlap>>
    /\ UNCHANGED <<sessionVars, outsideServe>>

\* The owner of opts.Ctx cancels it.
Cancel ==
    /\ ~crashed
    /\ ~ctxDone
    /\ ctxDone' = TRUE
    /\ UNCHANGED <<lifecycle, listener, archive, archivesCreated, promptMu,
                   handlers, clients, crashed, overlap>>
    /\ UNCHANGED <<sessionVars, outsideServe>>

\* go func() { <-ctx.Done(); listener.Close() }()
CloseListener ==
    /\ ~crashed
    /\ lifecycle = "listening"
    /\ ctxDone
    /\ listener = "open"
    /\ listener' = "closed"
    /\ UNCHANGED <<lifecycle, ctxDone, archive, archivesCreated, promptMu,
                   handlers, clients, crashed, overlap>>
    /\ UNCHANGED <<sessionVars, outsideServe>>

\* A handler that archives the directory for its own connection.
Accept_Archiving(c) ==
    /\ ~crashed
    /\ lifecycle = "listening"
    /\ listener = "open"
    /\ clients[c].pc = "connected"
    /\ handlers[c].pc = "none"
    /\ \A d \in Conns : d < c => handlers[d].pc # "none"
    /\ handlers' = [handlers EXCEPT ![c].pc = "accepted", ![c].late = ctxDone]
    /\ archivesCreated' = IF isDir THEN archivesCreated + 1 ELSE archivesCreated
    /\ UNCHANGED <<lifecycle, ctxDone, listener, archive, promptMu,
                   clients, crashed, overlap>>
    /\ UNCHANGED <<sessionVars, outsideServe>>

\* listener.Accept returns a connection, the one waiting longest; its handler
\* goroutine is started.
Accept(c) ==
    /\ ~crashed
    /\ lifecycle = "listening"
    /\ listener = "open"
    /\ clients[c].pc = "connected"
    /\ handlers[c].pc = "none"
    /\ \A d \in Conns : d < c => handlers[d].pc # "none"
    /\ handlers' = [handlers EXCEPT ![c].pc = "accepted", ![c].late = ctxDone]
    /\ UNCHANGED <<lifecycle, ctxDone, listener, archive, archivesCreated, promptMu,
                   clients, crashed, overlap>>
    /\ UNCHANGED <<sessionVars, outsideServe>>

\* listener.Accept returns an error, on a closed listener or for any other
\* cause: StartSenderWithOptions returns nil and its deferred calls run (the
\* listener is closed, cleanup removes the temp archive).
AcceptFails ==
    /\ ~crashed
    /\ lifecycle = "listening"
    /\ lifecycle' = "returned"
    /\ listener' = "closed"
    /\ archive' = IF archive = "present" THEN "removed" ELSE archive
    /\ UNCHANGED <<ctxDone, archivesCreated, promptMu, handlers, clients,
                   crashed, overlap>>
    /\ UNCHANGED <<sessionVars, outsideServe>>

\* handleTransfer returned err for connection c: OnError is invoked.
HFail(c, err) ==
    handlers' = [handlers EXCEPT ![c].pc = "failed", ![c].err = err,
                                 ![c].report = "error"]

\* A handler that asks for approval without taking promptMu.
HLock_NoMutex(c) ==
    /\ ~crashed
    /\ handlers[c].pc = "accepted"
    /\ promptMu' = c
    /\ handlers' = [handlers EXCEPT ![c].pc = "approving"]
    /\ UNCHANGED <<lifecycle, ctxDone, listener, archive, archivesCreated,
                   clients, crashed, overlap>>
    /\ UNCHANGED <<sessionVars, outsideServe>>

\* promptMu.Lock()
HLock(c) ==
    /\ ~crashed
    /\ handlers[c].pc = "accepted"
    /\ promptMu = 0
    /\ promptMu' = c
    /\ handlers' = [handlers EXCEPT ![c].pc = "approving"]
    /\ UNCHANGED <<lifecycle, ctxDone, listener, archive, archivesCreated,
                   clients, crashed, overlap>>
    /\ UNCHANGED <<sessionVars, outsideServe>>

\* approved := opts.AllowConn(addr); promptMu.Unlock(); a denial returns.
HApprove(c) ==
    /\ ~crashed
    /\ handlers[c].pc = "approving"
    /\ promptMu' = 0
    /\ \E approved \in BOOLEAN :
          handlers' = [handlers EXCEPT
                          ![c].pc = IF approved THEN "header" ELSE "rejected"]
    /\ UNCHANGED <<lifecycle, ctxDone, listener, archive, archivesCreated,
                   clients, crashed, overlap>>
    /\ UNCHANGED <<sessionVars, outsideServe>>

\* handleTransfer: the header record is written.
HSendHeader(c) ==
    /\ ~crashed
    /\ handlers[c].pc = "header"
    /\ handlers' = [handlers EXCEPT ![c].pc = "readReq",
                                    ![c].hdr = Append(@, FileHeader)]
    /\ UNCHANGED <<lifecycle, ctxDone, listener, archive, archivesCreated, promptMu,
                   clients, crashed, overlap>>
    /\ UNCHANGED <<sessionVars, outsideServe>>

\* io.CopyBuffer hands the bytes of each Read to one Write.
RECURSIVE CopyWrites(_)
CopyWrites(region) ==
    IF region = <<>> THEN <<>>
    ELSE LET n == Min(CopyBuf, Len(region))
         IN  <<Take(region, n)>> \o CopyWrites(Drop(region, n))

\* ChunkedWriter.Write(p): the writes it makes on the connection, the length
\* prefix and the data.
ChunkedWrites(p) ==
    LET out == ChunkedWrite(p)
        k   == Len(out) - Len(p)
    IN  IF out = <<>> THEN <<>>
        ELSE IF k = 0 THEN <<out>>
        ELSE <<Take(out, k), Drop(out, k)>>

\* The writes the handler makes on the connection for the content region of
\* the source from offset on, in order.
ContentWrites(offset) ==
    LET region == SubSeq(content, offset + 1, fileSize)
        z      == ZstdEncode(region)
    IN  IF FileHeader.compression = CompressionZstd
        THEN { ChunkedWrites(Take(z, k)) \o ChunkedWrites(Drop(z, k)) \o <<ChunkedClose>> :
                  k \in WriteSizes(z, 0) }
        ELSE { CopyWrites(region) }

\* What the peer of connection c puts on the connection after the header:
\* this repository's receiver the request it has written; any other peer any
\* request record, or it disconnects.
RequestsFrom(c) ==
    IF clients[c].kind = "honest"
    THEN {clients[c].req[i] : i \in 1..Len(clients[c].req)}
    ELSE RogueRequests

\* handleTransfer: the request length is read, make([]byte, reqLen) allocates
\* (a negative length panics, and nothing recovers the panic), the payload is
\* read and parsed, the offset clamped, the source opened and positioned.
HReadRequest(c) ==
    /\ ~crashed
    /\ handlers[c].pc = "readReq"
    /\ \E req \in RequestsFrom(c) :
       \E plan \in IF SeekFails(ClampOffset(req.offset, fileSize)) THEN {<<>>}
                   ELSE ContentWrites(ClampOffset(req.offset, fileSize)) :
          LET offset  == ClampOffset(req.offset, fileSize)
              removed == isDir /\ archive = "removed"
              outcome ==
                  CASE req.payload = "eof" -> "request"
                    [] req.payload # "eof" /\ req.len < 0 -> "panic"
                    [] req.len >= 0 /\ req.payload \in {"short", "malformed"} -> "request"
                    [] req.len >= 0 /\ req.payload = "valid" /\ removed -> "open"
                    [] req.len >= 0 /\ req.payload = "valid" /\ ~removed
                          /\ SeekFails(offset) -> "seek"
                    [] req.len >= 0 /\ req.payload = "valid" /\ ~removed
                          /\ ~SeekFails(offset) -> "stream"
          IN  /\ crashed' = (outcome = "panic")
              /\ handlers' =
                    [handlers EXCEPT
                        ![c].req    = Append(@, req),
                        ![c].seeks  = IF outcome \in {"seek", "stream"}
                                      THEN Append(@, offset) ELSE @,
                        ![c].plan   = IF outcome = "stream" THEN plan ELSE @,
                        ![c].pc     = CASE outcome = "panic"  -> @
                                        [] outcome = "stream" -> "stream"
                                        [] OTHER              -> "failed",
                        ![c].err    = IF outcome \in {"panic", "stream"}
                                      THEN @ ELSE outcome,
                        ![c].report = IF outcome \in {"panic", "stream"}
                                      THEN @ ELSE "error"]
              /\ overlap' = (overlap \/ (outcome = "stream" /\
                                \E d \in Conns \ {c} :
                                   handlers[d].pc \in {"stream", "footer"}))
    /\ UNCHANGED <<lifecycle, ctxDone, listener, archive, archivesCreated, promptMu,
                   clients>>
    /\ UNCHANGED <<sessionVars, outsideServe>>

\* handleTransfer in io.CopyBuffer and closer.Close: the next write of the
\* content region on the connection; the footer follows the last.
HStream(c) ==
    /\ ~crashed
    /\ handlers[c].pc = "stream"
    /\ handlers' =
          IF handlers[c].plan = <<>>
          THEN [handlers EXCEPT ![c].pc = "footer"]
          ELSE [handlers EXCEPT ![c].wire = @ \o Head(handlers[c].plan),
                                ![c].plan = Tail(@)]
    /\ UNCHANGED <<lifecycle, ctxDone, listener, archive, archivesCreated, promptMu,
                   clients, crashed, overlap>>
    /\ UNCHANGED <<sessionVars, outsideServe>>

\* checksum := hasher.Sum(nil); conn.Write(checksum); return nil: OnComplete.
HFooter(c) ==
    /\ ~crashed
    /\ handlers[c].pc = "footer"
    /\ handlers' = [handlers EXCEPT ![c].pc = "done",
                                    ![c].wire = @ \o Digest(@),
                                    ![c].report = "complete"]
    /\ UNCHANGED <<lifecycle, ctxDone, listener, archive, archivesCreated, promptMu,
                   clients, crashed, overlap>>
    /\ UNCHANGED <<sessionVars, outsideServe>>

\* A write fails, of the header, of the content region or of the footer: the
\* peer has disconnected.
HWriteFails(c) ==
    /\ ~crashed
    /\ \/ handlers[c].pc \in {"header", "footer"}
       \/ handlers[c].pc = "stream" /\ handlers[c].plan # <<>>
    /\ clients[c].kind = "rogue"
    /\ HFail(c, "write")
    /\ UNCHANGED <<lifecycle, ctxDone, listener, archive, archivesCreated, promptMu,
                   clients, crashed, overlap>>
    /\ UNCHANGED <<sessionVars, outsideServe>>

\* A peer connects while the listener is open; this repository's receiver is
\* then inside tls.Dial.  Connections are numbered in the order they are made.
Dial(c) ==
    /\ ~crashed
    /\ listener = "open"
    /\ clients[c].pc = "idle"
    /\ \A d \in Conns : d < c => clients[d].pc # "idle"
    /\ \E k \in {"honest", "rogue"} :
          clients' = [clients EXCEPT ![c].kind = k, ![c].pc = "connected"]
    /\ UNCHANGED <<lifecycle, ctxDone, listener, archive, archivesCreated, promptMu,
                   handlers, crashed, overlap>>
    /\ UNCHANGED <<sessionVars, outsideServe>>

\* Bytes the handler of connection c wrote after the header and the receiver
\* has not read.
CAvail(c) == Len(handlers[c].wire) - clients[c].pos

\* ReceiveConnectWithOptions returned an error.
CFails(c) == clients' = [clients EXCEPT ![c].pc = "ended", ![c].result = "error"]

\* tls.Dial returns: the sender's side of the handshake runs inside the
\* handler's first Write, the one of the header length.
CDialReturns(c) ==
    /\ clients[c].kind = "honest"
    /\ clients[c].pc = "connected"
    /\ handlers[c].hdr # <<>>
    /\ clients' = [clients EXCEPT ![c].pc = "readHeader"]
    /\ UNCHANGED <<lifecycle, ctxDone, listener, archive, archivesCreated, promptMu,
                   handlers, crashed, overlap>>
    /\ UNCHANGED <<sessionVars, outsideServe>>

\* tls.Dial fails: the sender's end was closed before any handshake.
CDialFails(c) ==
    /\ clients[c].kind = "honest"
    /\ clients[c].pc = "connected"
    /\ handlers[c].hdr = <<>>
    /\ SenderClosed(c)
    /\ CFails(c)
    /\ UNCHANGED <<lifecycle, ctxDone, listener, archive, archivesCreated, promptMu,
                   handlers, crashed, overlap>>
    /\ UNCHANGED <<sessionVars, outsideServe>>

\* The header record is read and destFile opened: nothing is at the target
\* path in the download directory, the offset to request is 0.
CReadHeader(c) ==
    /\ clients[c].pc = "readHeader"
    /\ clients' = [clients EXCEPT ![c].pc = "sendReq",
                                  ![c].header = <<handlers[c].hdr[1]>>]
    /\ UNCHANGED <<lifecycle, ctxDone, listener, archive, archivesCreated, promptMu,
                   handlers, crashed, overlap>>
    /\ UNCHANGED <<sessionVars, outsideServe>>

\* The request record is written.
CSendRequest(c) ==
    /\ clients[c].pc = "sendReq"
    /\ clients' = [clients EXCEPT ![c].pc = "consume",
                                  ![c].req = Append(@, HonestRequest(0))]
    /\ UNCHANGED <<lifecycle, ctxDone, listener, archive, archivesCreated, promptMu,
                   handlers, crashed, overlap>>
    /\ UNCHANGED <<sessionVars, outsideServe>>

\* One read of the copy loop without compression, through
\* io.LimitReader(conn, size - offset): the bytes are written to destFile.
\* The limit reached, or the connection at its end, ends the copy.
CCopyPlain(c) ==
    /\ clients[c].pc = "consume"
    /\ clients[c].header[1].compression # CompressionZstd
    /\ LET cl        == clients[c]
           remaining == cl.header[1].size - cl.req[1].offset - Len(cl.got)
       IN  IF remaining > 0 /\ CAvail(c) > 0
           THEN LET n == Min(Min(CAvail(c), remaining), CopyBuf)
                IN  clients' =
                       [clients EXCEPT
                           ![c].pos = @ + n,
                           ![c].got = @ \o SubSeq(handlers[c].wire, cl.pos + 1, cl.pos + n)]
           ELSE /\ remaining <= 0 \/ SenderClosed(c)
                /\ clients' = [clients EXCEPT ![c].pc = "footer"]
    /\ UNCHANGED <<lifecycle, ctxDone, listener, archive, archivesCreated, promptMu,
                   handlers, crashed, overlap>>
    /\ UNCHANGED <<sessionVars, outsideServe>>

\* io.CopyBuffer when the ChunkedReader reports its end: the copy ends
\* without an error when the decoder was given nothing or a complete frame,
\* and with the decoder's error otherwise.
CCopyEnds(cl) ==
    IF ZstdDecode(cl.zbuf).ok
    THEN [cl EXCEPT !.pc = "footer"]
    ELSE [cl EXCEPT !.pc = "ended", !.result = "error"]

\* ChunkedReader.Read with currChunk = 0: the length prefix is read; the
\* sentinel, or the end of the connection, ends the reader.
CReadChunkLength(c) ==
    /\ clients[c].pc = "consume"
    /\ clients[c].header[1].compression = CompressionZstd
    /\ clients[c].curr = U32Zero
    /\ LET cl == clients[c]
       IN  IF CAvail(c) >= 4
           THEN LET length == FromBE32(SubSeq(handlers[c].wire, cl.pos + 1, cl.pos + 4))
                    read   == [cl EXCEPT !.pos = @ + 4]
                IN  clients' =
                       [clients EXCEPT
                           ![c] = IF length = U32Zero THEN CCopyEnds(read)
                                  ELSE [read EXCEPT !.curr = length]]
           ELSE /\ SenderClosed(c)
                /\ LET read == [cl EXCEPT !.pos = Len(handlers[c].wire)]
                   IN  clients' =
                          [clients EXCEPT
                              ![c] = IF CAvail(c) = 0 THEN CCopyEnds(read)
                                     ELSE [read EXCEPT !.pc = "ended",
                                                       !.result = "error"]]
    /\ UNCHANGED <<lifecycle, ctxDone, listener, archive, archivesCreated, promptMu,
                   handlers, crashed, overlap>>
    /\ UNCHANGED <<sessionVars, outsideServe>>

\* ChunkedReader.Read inside a chunk: at most currChunk bytes are read;
\* io.CopyBuffer writes to destFile what the decoder gives out of them, and
\* returns the decoder's error when it meets one.  The end of the connection
\* is passed on as the reader's end.
CReadChunkData(c) ==
    /\ clients[c].pc = "consume"
    /\ clients[c].header[1].compression = CompressionZstd
    /\ clients[c].curr # U32Zero
    /\ LET cl == clients[c]
       IN  IF CAvail(c) > 0
           THEN LET n       == U32Min(CAvail(c), cl.curr)
                    z       == cl.zbuf \o SubSeq(handlers[c].wire, cl.pos + 1, cl.pos + n)
                    decoded == ZstdStream(z)
                    read    == [cl EXCEPT !.pos  = @ + n,
                                          !.zbuf = z,
                                          !.curr = U32Sub(@, n),
                                          !.got  = decoded.data]
                IN  clients' =
                       [clients EXCEPT
                           ![c] = IF decoded.err
                                  THEN [read EXCEPT !.pc = "ended", !.result = "error"]
                                  ELSE read]
           ELSE /\ SenderClosed(c)
                /\ clients' = [clients EXCEPT ![c] = CCopyEnds(cl)]
    /\ UNCHANGED <<lifecycle, ctxDone, listener, archive, archivesCreated, promptMu,
                   handlers, crashed, overlap>>
    /\ UNCHANGED <<sessionVars, outsideServe>>

\* io.ReadFull(conn, receivedChecksum) and the comparison with hasher.Sum over
\* the bytes read after the header; an archive goes on to its extraction.
CReadFooter(c) ==
    /\ clients[c].pc = "footer"
    /\ LET cl == clients[c]
       IN  IF CAvail(c) >= DigestLen
           THEN LET received == SubSeq(handlers[c].wire, cl.pos + 1, cl.pos + DigestLen)
                    hashed   == Take(handlers[c].wire, cl.pos)
                    read     == [cl EXCEPT !.pos = @ + DigestLen]
                IN  clients' =
                       [clients EXCEPT
                           ![c] = IF ~ChecksumOk(Digest(hashed), received)
                                  THEN [read EXCEPT !.pc = "ended", !.result = "checksum"]
                                  ELSE IF cl.header[1].is_archive
                                  THEN [read EXCEPT !.pc = "extract", !.verified = TRUE]
                                  ELSE [read EXCEPT !.pc = "ended", !.verified = TRUE,
                                                    !.result = "ok"]]
           ELSE /\ SenderClosed(c)
                /\ CFails(c)
    /\ UNCHANGED <<lifecycle, ctxDone, listener, archive, archivesCreated, promptMu,
                   handlers, crashed, overlap>>
    /\ UNCHANGED <<sessionVars, outsideServe>>

\* unzip(outPath, downloadDir): nil is returned when it succeeded, "failed to
\* unzip" when it did not.
CExtract(c) ==
    /\ clients[c].pc = "extract"
    /\ \E ok \in BOOLEAN :
          clients' = [clients EXCEPT ![c].pc = "ended",
                                     ![c].result = IF ok THEN "ok" ELSE "error"]
    /\ UNCHANGED <<lifecycle, ctxDone, listener, archive, archivesCreated, promptMu,
                   handlers, crashed, overlap>>
    /\ UNCHANGED <<sessionVars, outsideServe>>

NextServe ==
    \/ Prepare
    \/ \E step \in PrepareSteps : PrepareFails(step)
    \/ Announce
    \/ AnnounceFails
    \/ Cancel
    \/ CloseListener
    \/ AcceptFails
    \/ \E c \in Conns : Accept(c)
    \/ \E c \in Conns : HLock(c)
    \/ \E c \in Conns : HApprove(c)
    \/ \E c \in Conns : HSendHeader(c)
    \/ \E c \in Conns : HReadRequest(c)
    \/ \E c \in Conns : HStream(c)
    \/ \E c \in Conns : HFooter(c)
    \/ \E c \in Conns : HWriteFails(c)
    \/ \E c \in Conns : Dial(c)
    \/ \E c \in Conns : CDialReturns(c)
    \/ \E c \in Conns : CDialFails(c)
    \/ \E c \in Conns : CReadHeader(c)
    \/ \E c \in Conns : CSendRequest(c)
    \/ \E c \in Conns : CCopyPlain(c)
    \/ \E c \in Conns : CReadChunkLength(c)
    \/ \E c \in Conns : CReadChunkData(c)
    \/ \E c \in Conns : CReadFooter(c)
    \/ \E c \in Conns : CExtract(c)

SpecServe == InitServe /\ [][NextServe]_vars

\* ------------------------------------------------------------ the GUI's sender control

\* Sender goroutines one run of the application starts.
MaxSessions == 2

\* Concurrent calls of the bound method StartSending.
Callers == {1, 2}

CallerIdle ==
    [ pc     |-> "idle",     \* position in StartSending
      sess   |-> 0,          \* the sender goroutine this call started
      result |-> "none",     \* what the last call returned
      raced  |-> FALSE ]     \* the call passed the isSending test while a
                             \* session was running

\* Sender sessions: StartSenderWithOptions has started and not returned.
Running == {x \in DOMAIN sessions : sessions[x].pc = "running"}

InitApp ==
    /\ MoreAtRest
    /\ SessionAtRest /\ TransferAtRest /\ ServeAtRest /\ UnzipAtRest
    /\ ChunkAtRest /\ HeaderAtRest /\ PolicyAtRest
    /\ isSending = FALSE
    /\ senderCancel = 0
    /\ sessions = <<>>
    /\ callers = [k \in Callers |-> CallerIdle]

\* StartSending: under senderMu, "already sending" when isSending is set,
\* else isSending is set.
StartSendingCheck(k) ==
    /\ callers[k].pc = "idle"
    /\ Len(sessions) + Cardinality({j \in Callers : callers[j].pc = "cancel"})
          < MaxSessions
    /\ IF isSending
       THEN /\ callers' = [callers EXCEPT ![k].result = "already sending"]
            /\ UNCHANGED isSending
       ELSE /\ isSending' = TRUE
            /\ callers' = [callers EXCEPT ![k].pc = "cancel", ![k].result = "none",
                                          ![k].raced = (@ \/ Running # {})]
    /\ UNCHANGED <<senderCancel, sessions>>
    /\ UNCHANGED outsideApp

\* StartSending: the context is created, senderCancel stored under senderMu,
\* the sender goroutine started.
StartSendingSpawn(k) ==
    /\ callers[k].pc = "cancel"
    /\ sessions' = Append(sessions, [pc |-> "spawned", cancelled |-> FALSE,
                                     port |-> FALSE])
    /\ senderCancel' = Len(sessions) + 1
    /\ callers' = [callers EXCEPT ![k].pc = "wait", ![k].sess = Len(sessions) + 1]
    /\ UNCHANGED isSending
    /\ UNCHANGED outsideApp

\* A wait whose timeout returns the error without cancelling the context.
StartSendingWait_NoCancel(k) ==
    /\ callers[k].pc = "wait"
    /\ \/ /\ sessions[callers[k].sess].port
          /\ callers' = [callers EXCEPT ![k].pc = "idle", ![k].result = "started"]
       \/ callers' = [callers EXCEPT ![k].pc = "idle", ![k].result = "timeout"]
    /\ UNCHANGED <<isSending, senderCancel, sessions>>
    /\ UNCHANGED outsideApp

\* StartSending: the select on portChan and the 5 s timer; the timeout
\* cancels the context and leaves isSending and senderCancel as they are.
StartSendingWait(k) ==
    /\ callers[k].pc = "wait"
    /\ \/ /\ sessions[callers[k].sess].port
          /\ callers' = [callers EXCEPT ![k].pc = "idle", ![k].result = "started"]
          /\ UNCHANGED sessions
       \/ /\ callers' = [callers EXCEPT ![k].pc = "idle", ![k].result = "timeout"]
          /\ sessions' = [sessions EXCEPT ![callers[k].sess].cancelled = TRUE]
    /\ UNCHANGED <<isSending, senderCancel>>
    /\ UNCHANGED outsideApp

\* StopSending: under senderMu, a stored cancel is called and cleared and
\* isSending is reset.
StopSending ==
    /\ senderCancel # 0
    /\ sessions' = [sessions EXCEPT ![senderCancel].cancelled = TRUE]
    /\ senderCancel' = 0
    /\ isSending' = FALSE
    /\ UNCHANGED callers
    /\ UNCHANGED outsideApp

\* The sender goroutine calls transfer.StartSenderWithOptions.
SenderRun(x) ==
    /\ x \in DOMAIN sessions
    /\ sessions[x].pc = "spawned"
    /\ sessions' = [sessions EXCEPT ![x].pc = "running"]
    /\ UNCHANGED <<isSending, senderCancel, callers>>
    /\ UNCHANGED outsideApp

\* StartSenderWithOptions listens and puts the port on PortChan.
SenderListen(x) ==
    /\ x \in DOMAIN sessions
    /\ sessions[x].pc = "running"
    /\ ~sessions[x].port
    /\ sessions' = [sessions EXCEPT ![x].port = TRUE]
    /\ UNCHANGED <<isSending, senderCancel, callers>>
    /\ UNCHANGED outsideApp

\* StartSenderWithOptions returns: with an error before it listens or when
\* discovery.Announce fails, or with nil when listener.Accept fails, on the
\* listener closed after the cancellation of its context or for any other
\* cause.
SenderReturn(x) ==
    /\ x \in DOMAIN sessions
    /\ sessions[x].pc = "running"
    /\ sessions' = [sessions EXCEPT ![x].pc = "returned"]
    /\ UNCHANGED <<isSending, senderCancel, callers>>
    /\ UNCHANGED outsideApp

\* The sender goroutine's last step: under senderMu, isSending = false and
\* senderCancel = nil.
SenderExit(x) ==
    /\ x \in DOMAIN sessions
    /\ sessions[x].pc = "returned"
    /\ sessions' = [sessions EXCEPT ![x].pc = "exited"]
    /\ isSending' = FALSE
    /\ senderCancel' = 0
    /\ UNCHANGED callers
    /\ UNCHANGED outsideApp

NextApp ==
    \/ \E k \in Callers : StartSendingCheck(k)
    \/ \E k \in Callers : StartSendingSpawn(k)
    \/ \E k \in Callers : StartSendingWait(k)
    \/ StopSending
    \/ \E x \in 1..MaxSessions : SenderRun(x)
    \/ \E x \in 1..MaxSessions : SenderListen(x)
    \/ \E x \in 1..MaxSessions : SenderReturn(x)
    \/ \E x \in 1..MaxSessions : SenderExit(x)

SpecApp == InitApp /\ [][NextApp]_vars

\* The sender goroutine is scheduled: it calls StartSenderWithOptions, which
\* returns once its context is cancelled (Accept fails on the listener closed
\* by then), and then runs its last step.  A session that nobody cancels and
\* that meets no error may stay in its accept loop.
SpecAppFair ==
    /\ InitApp
    /\ [][NextApp]_vars
    /\ \A x \in 1..MaxSessions :
          /\ WF_vars(SenderRun(x))
          /\ WF_vars(SenderReturn(x) /\ sessions[x].cancelled)
          /\ WF_vars(SenderExit(x))

\* ------------------------------------------------------------ unzip

\* Most entries of an archive.
MaxEntries == 2

\* The index of the first separator of path, Len(path) + 1 without one.
FirstSlash(path) ==
    IF \E i \in 1..Len(path) : path[i] = "/"
    THEN CHOOSE i \in 1..Len(path) :
            path[i] = "/" /\ \A j \in 1..(i - 1) : path[j] # "/"
    ELSE Len(path) + 1

\* The index of the last separator of path, 0 without one.
LastSlash(path) ==
    IF \E i \in 1..Len(path) : path[i] = "/"
    THEN CHOOSE i \in 1..Len(path) :
            path[i] = "/" /\ \A j \in (i + 1)..Len(path) : path[j] # "/"
    ELSE 0

\* The non-empty elements between the separators of path.
RECURSIVE Elements(_)
Elements(path) ==
    IF path = <<>> THEN <<>>
    ELSE IF path[1] = "/" THEN Elements(Tail(path))
    ELSE LET n == FirstSlash(path)
         IN  <<Take(path, n - 1)>> \o Elements(Drop(path, n - 1))

DotDot == <<".", ".">>

\* filepath.Clean on the elements: "." dropped, ".." removes the element
\* before it, is dropped at the root and kept at the start of a relative
\* path.
RECURSIVE CleanElements(_, _, _)
CleanElements(elems, rooted, acc) ==
    IF elems = <<>> THEN acc
    ELSE LET e    == Head(elems)
             rest == Tail(elems)
         IN  IF e = <<".">> THEN CleanElements(rest, rooted, acc)
             ELSE IF e = DotDot
                  THEN IF acc # <<>> /\ acc[Len(acc)] # DotDot
                       THEN CleanElements(rest, rooted, Take(acc, Len(acc) - 1))
                       ELSE IF rooted
                            THEN CleanElements(rest, rooted, acc)
                            ELSE CleanElements(rest, rooted, Append(acc, e))
                  ELSE CleanElements(rest, rooted, Append(acc, e))

RECURSIVE JoinElements(_)
JoinElements(elems) ==
    IF elems = <<>> THEN <<>>
    ELSE IF Len(elems) = 1 THEN elems[1]
    ELSE elems[1] \o <<"/">> \o JoinElements(Tail(elems))

Rooted(path) == path # <<>> /\ path[1] = "/"

\* filepath.Clean
Clean(path) ==
    LET out == (IF Rooted(path) THEN <<"/">> ELSE <<>>)
                  \o JoinElements(CleanElements(Elements(path), Rooted(path), <<>>))
    IN  IF out = <<>> THEN <<".">> ELSE out

\* filepath.Join of two elements: empty elements are ignored, the result is
\* cleaned.
Join(a, b) ==
    IF a = <<>> /\ b = <<>> THEN <<>>
    ELSE IF a = <<>> THEN Clean(b)
    ELSE IF b = <<>> THEN Clean(a)
    ELSE Clean(a \o <<"/">> \o b)

\* filepath.Dir: the path up to its last separator, cleaned.
Dir(path) == Clean(Take(path, LastSlash(path)))

\* strings.HasPrefix
HasPrefix(str, prefix) == IsPrefix(prefix, str)

\* The directories above a cleaned path, by its separators.
Ancestors(path) ==
    { Clean(Take(path, i)) : i \in {j \in 1..Len(path) : path[j] = "/"} }

Dests ==
    { Str(<<"o">>), Str(<<"/", "w", "/", "o">>), Str(<<".", ".">>), Str(<<".">>),
      Str(<<"o", "/">>) }

EntryNames ==
    { Str(<<"a">>), Str(<<"d">>), Str(<<"d", "/", "a">>),
      Str(<<".", ".", "/", "e">>), Str(<<"d", "/", ".", ".">>) }

ZipEntries == [name : EntryNames, dir : BOOLEAN]

InitUnzip ==
    /\ MoreAtRest
    /\ SessionAtRest /\ TransferAtRest /\ ServeAtRest /\ AppAtRest
    /\ ChunkAtRest /\ HeaderAtRest /\ PolicyAtRest
    /\ dest \in Dests
    /\ zipFiles \in SeqsUpTo(ZipEntries, MaxEntries)
    /\ zi = 0
    /\ fsPaths = <<>>
    /\ unzipErr = "none"

\* Regular files unzip has written.
Written == {fsPaths[i].path : i \in {j \in 1..Len(fsPaths) : fsPaths[j].op = "write"}}

\* Directories that exist: the destination (made by the receiver before it
\* extracts), what MkdirAll made, and everything above those and above the
\* files written.
Made ==
    LET mk == {Clean(dest)} \cup
                 {fsPaths[i].path : i \in {j \in 1..Len(fsPaths) : fsPaths[j].op # "write"}}
    IN  mk \cup UNION {Ancestors(q) : q \in mk \cup Written}

\* os.MkdirAll(path) fails when path or a directory above it is a regular file.
MkdirAllFails(path) == (Ancestors(path) \cup {path}) \cap Written # {}

\* os.OpenFile(path, O_WRONLY|O_CREATE|O_TRUNC) fails on a directory.
OpenFileFails(path) == path \in Made

\* !strings.HasPrefix(fpath, filepath.Clean(dest)+string(os.PathSeparator))
IllegalPath(fpath) == ~HasPrefix(fpath, Clean(dest) \o <<"/">>)

\* zip.OpenReader(src) fails: nothing is extracted.
UnzipOpenFails ==
    /\ unzipErr = "none"
    /\ zi = 0
    /\ fsPaths = <<>>
    /\ unzipErr' = "open"
    /\ UNCHANGED <<dest, zipFiles, zi, fsPaths>>
    /\ UNCHANGED outsideUnzip

\* One turn of the loop over r.File.  Opening or copying the entry's data can
\* fail after the file was created.
UnzipEntry ==
    /\ unzipErr = "none"
    /\ zi < Len(zipFiles)
    /\ LET f     == zipFiles[zi + 1]
           fpath == Join(dest, f.name)
       IN  IF IllegalPath(fpath)
           THEN /\ unzipErr' = "illegal"
                /\ UNCHANGED <<zi, fsPaths>>
           ELSE IF f.dir
                THEN /\ fsPaths' = IF MkdirAllFails(fpath) THEN fsPaths
                                   ELSE Append(fsPaths, [op |-> "mkdir", path |-> fpath])
                     /\ zi' = zi + 1
                     /\ UNCHANGED unzipErr
                ELSE IF MkdirAllFails(Dir(fpath)) \/ OpenFileFails(fpath)
                     THEN /\ unzipErr' = "io"
                          /\ fsPaths' = IF MkdirAllFails(Dir(fpath)) THEN fsPaths
                                        ELSE Append(fsPaths,
                                                [op |-> "parents", path |-> Dir(fpath)])
                          /\ UNCHANGED zi
                     ELSE /\ fsPaths' = fsPaths \o
                                 << [op |-> "parents", path |-> Dir(fpath)],
                                    [op |-> "write", path |-> fpath] >>
                          /\ \/ /\ zi' = zi + 1
                                /\ UNCHANGED unzipErr
                             \/ /\ unzipErr' = "io"
                                /\ UNCHANGED zi
    /\ UNCHANGED <<dest, zipFiles>>
    /\ UNCHANGED outsideUnzip

NextUnzip ==
    \/ UnzipOpenFails
    \/ UnzipEntry

SpecUnzip == InitUnzip /\ [][NextUnzip]_vars

\* ------------------------------------------------------------ chunked stream

\* Longest payload given to a ChunkedWriter.
ChunkMaxLen == 3

\* Largest buffer handed to ChunkedReader.Read.
ReadBufMax == 2

InitChunk ==
    /\ MoreAtRest
    /\ SessionAtRest /\ TransferAtRest /\ ServeAtRest /\ AppAtRest
    /\ UnzipAtRest /\ HeaderAtRest /\ PolicyAtRest
    /\ cwS \in SeqsUpTo(ContentBytes, ChunkMaxLen)
    /\ cwLeft = cwS
    /\ cwWire = <<>>
    /\ cwClosed = FALSE
    /\ crPos = 0
    /\ crCurrChunk = U32Zero
    /\ crEof = FALSE
    /\ crOut = <<>>
    /\ crErr = "nil"

\* ChunkedWriter.Write(p) with the next n bytes of the payload; n = 0 is a
\* Write of an empty slice.
CwWrite(n) ==
    /\ ~cwClosed
    /\ n <= Len(cwLeft)
    /\ cwWire' = cwWire \o ChunkedWrite(Take(cwLeft, n))
    /\ cwLeft' = Drop(cwLeft, n)
    /\ UNCHANGED <<cwS, cwClosed, crPos, crCurrChunk, crEof, crOut, crErr>>
    /\ UNCHANGED outsideChunk

\* ChunkedWriter.Close, after the last Write.
CwClose ==
    /\ ~cwClosed
    /\ cwLeft = <<>>
    /\ cwWire' = cwWire \o ChunkedClose
    /\ cwClosed' = TRUE
    /\ UNCHANGED <<cwS, cwLeft, crPos, crCurrChunk, crEof, crOut, crErr>>
    /\ UNCHANGED outsideChunk

\* Bytes written and not yet read from the underlying stream.
Unread == Len(cwWire) - crPos

\* A reader that hands the whole buffer to the underlying stream.
ReadLimit_Whole(k, curr) == k

\* if int64(len(p)) > c.currChunk { p = p[:c.currChunk] }
ReadLimit(k, curr) == U32Min(k, curr)

\* ChunkedReader.Read(p) with len(p) = k: at a chunk boundary it reads the
\* length (binary.Read waits for its four bytes), then the underlying Read
\* returns m bytes, one at least when the buffer has room (it waits for data)
\* and no more than are there.  At end of stream it returns io.EOF again.
CrRead(k, m) ==
    /\ IF crEof
       THEN /\ m = 0
            /\ crErr' = "EOF"
            /\ UNCHANGED <<crPos, crCurrChunk, crEof, crOut>>
       ELSE LET atBoundary == crCurrChunk = U32Zero
                length     == FromBE32(SubSeq(cwWire, crPos + 1, crPos + 4))
                pos        == IF atBoundary THEN crPos + 4 ELSE crPos
                curr       == IF atBoundary THEN length ELSE crCurrChunk
                lim        == ReadLimit(k, curr)
            IN  /\ atBoundary => Unread >= 4
                /\ IF atBoundary /\ length = U32Zero
                   THEN /\ m = 0
                        /\ crEof' = TRUE
                        /\ crErr' = "EOF"
                        /\ crPos' = pos
                        /\ UNCHANGED <<crCurrChunk, crOut>>
                   ELSE /\ m <= lim
                        /\ m <= Len(cwWire) - pos
                        /\ lim > 0 => m > 0
                        /\ crOut' = crOut \o SubSeq(cwWire, pos + 1, pos + m)
                        /\ crPos' = pos + m
                        /\ crCurrChunk' = U32Sub(curr, m)
                        /\ crErr' = "nil"
                        /\ UNCHANGED crEof
    /\ UNCHANGED <<cwS, cwLeft, cwWire, cwClosed>>
    /\ UNCHANGED outsideChunk

NextChunk ==
    \/ \E n \in 0..ChunkMaxLen : CwWrite(n)
    \/ CwClose
    \/ \E k \in 0..ReadBufMax, m \in 0..ReadBufMax : CrRead(k, m)

SpecChunk == InitChunk /\ [][NextChunk]_vars

\* ------------------------------------------------------------ header intake

\* Header lengths a sender may announce: negative, empty, the two bytes of
\* "{}", the limit, one past it, and the largest the model's integers hold
\* (standing for every larger int64).
HeaderLens == {0 - 1, 0, 2, MaxRecordLen, MaxRecordLen + 1, 2147483647}

\* What follows the length on the connection: "none" when the connection
\* ends inside the length itself, "short" when it ends inside the payload,
\* "malformed" for bytes json.Unmarshal rejects, "valid" for a JSON header
\* (padded with whitespace to the announced length).
HeaderPayloads == {"none", "short", "malformed", "valid"}

\* Headers a valid payload decodes to.
AnnouncedHeaders ==
    [ name        : {Str(<<"a">>)},
      size        : {0, 1},
      is_archive  : BOOLEAN,
      compression : {CompressionNone, CompressionZstd} ]

InitHeader ==
    /\ MoreAtRest
    /\ SessionAtRest /\ TransferAtRest /\ ServeAtRest /\ AppAtRest
    /\ UnzipAtRest /\ ChunkAtRest /\ PolicyAtRest
    /\ annLen \in HeaderLens
    /\ annPayload \in HeaderPayloads
    /\ annHeader \in {<<h>> : h \in AnnouncedHeaders}
    /\ xTarget \in Targets
    /\ xpc = "readLen"
    /\ xErr = "none"
    /\ xOps = <<>>

\* A limit test that lets one more byte through.
TooLarge_OffByOne(headerLen) == headerLen > MaxRecordLen + 1

\* if headerLen > 65536
TooLarge(headerLen) == headerLen > MaxRecordLen

\* binary.Read(conn, binary.BigEndian, &headerLen) and the limit test.
XReadLength ==
    /\ xpc = "readLen"
    /\ IF annPayload = "none"
       THEN /\ xpc' = "error"
            /\ xErr' = "length"
            /\ UNCHANGED xOps
       ELSE /\ xOps' = Append(xOps, "length")
            /\ IF TooLarge(annLen)
               THEN xpc' = "error" /\ xErr' = "toolarge"
               ELSE xpc' = "payload" /\ UNCHANGED xErr
    /\ UNCHANGED <<annLen, annPayload, annHeader, xTarget>>
    /\ UNCHANGED outsideHeader

\* make([]byte, headerLen), io.ReadFull and json.Unmarshal.  make panics on a
\* negative length; no JSON value is shorter than two bytes.
XReadPayload ==
    /\ xpc = "payload"
    /\ IF annLen < 0
       THEN /\ xpc' = "panic"
            /\ xErr' = "panic"
            /\ UNCHANGED xOps
       ELSE IF annPayload = "short" /\ annLen > 0
            THEN /\ xpc' = "error"
                 /\ xErr' = "header"
                 /\ xOps' = xOps \o <<"alloc", "payload">>
            ELSE IF annPayload = "valid" /\ annLen >= 2
                 THEN /\ xpc' = "open"
                      /\ xOps' = xOps \o <<"alloc", "payload">>
                      /\ UNCHANGED xErr
                 ELSE /\ xpc' = "error"
                      /\ xErr' = "unmarshal"
                      /\ xOps' = xOps \o <<"alloc", "payload">>
    /\ UNCHANGED <<annLen, annPayload, annHeader, xTarget>>
    /\ UNCHANGED outsideHeader

\* os.MkdirAll(downloadDir), then destFile is opened as negotiated; after a
\* failed open destFile.Name() panics on the nil file.
XOpen ==
    /\ xpc = "open"
    /\ LET d == Negotiate(annHeader[1], xTarget)
       IN  IF d.mode = "fail"
           THEN /\ xpc' = "panic"
                /\ xErr' = "panic"
                /\ xOps' = Append(xOps, "mkdir")
           ELSE /\ xpc' = "sendReq"
                /\ xOps' = xOps \o <<"mkdir", d.mode>>
                /\ UNCHANGED xErr
    /\ UNCHANGED <<annLen, annPayload, annHeader, xTarget>>
    /\ UNCHANGED outsideHeader

\* The request record is written.
XSendRequest ==
    /\ xpc = "sendReq"
    /\ xpc' = "consume"
    /\ xOps' = Append(xOps, "request")
    /\ UNCHANGED <<annLen, annPayload, annHeader, xTarget, xErr>>
    /\ UNCHANGED outsideHeader

NextHeader ==
    \/ XReadLength
    \/ XReadPayload
    \/ XOpen
    \/ XSendRequest

SpecHeader == InitHeader /\ [][NextHeader]_vars

\* ------------------------------------------------------------ compression policy

\* Connections of one session whose advertised mode is recorded.
PolConns == 2

PolStems == { Str(<<"a">>), Str(<<"d", ".", "g", "o", "/", "a">>) }

\* Endings of the names: the extensions the policy lists, the same in other
\* letter case (one with a letter outside ASCII whose lower case is in ASCII),
\* unlisted ones, several in a row, none, and a bare dot.
PolEndings ==
    SkipExts \cup CompressExts \cup
    { <<".","T","X","T">>, <<".","G","o">>, <<".","J","P","G">>, <<".","b","i","n">>,
      <<".","M","D">>, <<".","L","o","g">>, <<".","J","S","O","N">>, <<".","R","A","R">>,
      <<".","t","x","t",".","z","i","p">>, <<".","z","i","p",".","t","x","t">>,
      <<".","Z","\\u0130","P">>, <<".","t","\\u00C9">>,
      <<>>, <<".">>, <<"t","x","t">> }

\* The paths given to the sender; the last one is a name that is only an
\* extension.
PolNames == {Str(st \o e) : st \in PolStems, e \in PolEndings} \cup {Str(<<".","t","x","t">>)}

InitPolicy ==
    /\ MoreAtRest
    /\ SessionAtRest /\ TransferAtRest /\ ServeAtRest /\ AppAtRest
    /\ UnzipAtRest /\ ChunkAtRest /\ HeaderAtRest
    /\ polName \in PolNames
    /\ polIsDir \in BOOLEAN
    /\ polModes = <<>>

\* handleTransfer on one more connection of the session: the mode put in the
\* header.
Advertise ==
    /\ Len(polModes) < PolConns
    /\ polModes' = Append(polModes, getCompressionMethod(polName, polIsDir))
    /\ UNCHANGED <<polName, polIsDir>>
    /\ UNCHANGED outsidePolicy

NextPolicy == Advertise

SpecPolicy == InitPolicy /\ [][NextPolicy]_vars

\* ------------------------------------------------------------ properties

Compression == FileHeader.compression

\* The session met no interference: this repository's receiver, no byte
\* altered in transit.
Undisturbed == peer = "honest" /\ tamper = "none"

\* The sender approved the connection and the receive session has returned.
SessionEnded == spc # "accepted" /\ spc # "rejected" /\ rpc \in {"done", "error"}

\* The uncompressed content from the offset the sender positioned at.
SentRegion == SubSeq(content, seeks[1] + 1, fileSize)

\* A target path on which a transfer ends with the source's bytes: nothing
\* there, or a regular file that is a prefix of the source or no shorter.
CleanTarget ==
    \/ target0.kind = "absent"
    \/ /\ target0.kind = "file"
       /\ IsPrefix(target0.data, content) \/ Len(target0.data) >= fileSize

\* C1 (as claimed): every undisturbed session of a compressible single file
\* onto a writable target path ends in success with the received file equal
\* to the source, whatever the target path held before.
C1_Original ==
    (/\ Undisturbed /\ ~isDir /\ Compression = CompressionZstd
     /\ target0.kind # "dir" /\ SessionEnded)
    => (rpc = "done" /\ target = RegularFile(content))

\* C1 (amended): an undisturbed session of a compressible single file (zstd
\* chosen) onto a target path that is absent, or holds a regular file that is
\* a prefix of the source or at least as long, ends with the receiver's digest
\* equal to the footer, success, and the received file equal to the source.
C1_RoundTripZstd ==
    (/\ Undisturbed /\ ~isDir /\ Compression = CompressionZstd
     /\ CleanTarget /\ SessionEnded)
    => /\ rpc = "done" /\ rErr = "none" /\ rComplete = 1
       /\ Len(rFooter) = 1 /\ Len(sFooter) = 1
       /\ Digest(rHash) = rFooter[1]
       /\ rFooter[1] = sFooter[1]
       /\ target = RegularFile(content)

C1_Witness ==
    /\ Undisturbed /\ ~isDir /\ Compression = CompressionZstd
    /\ target0.kind = "absent" /\ Len(content) = MaxLen
    /\ nChunks > 1
    /\ rpc = "done" /\ target = RegularFile(content)

\* C2: an undisturbed session of a single file sent without compression onto
\* an absent target path ends in success; the receiver has read exactly size
\* content bytes before the footer, its digest equals the footer, and the
\* received file equals the source.
C2_RoundTripNone ==
    (/\ Undisturbed /\ ~isDir /\ Compression = CompressionNone
     /\ target0.kind = "absent" /\ SessionEnded)
    => /\ rpc = "done" /\ rErr = "none" /\ rComplete = 1
       /\ Len(rGot) = fileSize
       /\ rpos = fileSize + DigestLen
       /\ Len(rFooter) = 1 /\ Len(sFooter) = 1
       /\ Digest(rHash) = rFooter[1]
       /\ rFooter[1] = sFooter[1]
       /\ target = RegularFile(content)

C2_Witness ==
    /\ Undisturbed /\ ~isDir /\ Compression = CompressionNone
    /\ target0.kind = "absent" /\ Len(content) = MaxLen
    /\ rpc = "done" /\ target = RegularFile(content)

\* C3 (as claimed): in every session, with or without compression, the
\* sender's footer digest and the receiver's digest are taken over exactly
\* the uncompressed content bytes [offset, size); compressed bytes, chunk
\* length prefixes and the sentinel enter neither hash.
C3_HashDomain ==
    /\ Len(sFooter) > 0 =>
          /\ sHash = SentRegion
          /\ sFooter[1] = Digest(SentRegion)
    /\ (Undisturbed /\ Len(rFooter) > 0) =>
          rHash = SubSeq(content, rOffset + 1, fileSize)

\* What the two hashers are given.  Without compression: the uncompressed
\* content bytes [offset, size).  With zstd: the chunked compressed stream,
\* every chunk's length prefix, the compressed bytes and the zero-length
\* sentinel.  In an undisturbed session the receiver hashes the bytes the
\* sender hashed.
HashOverWire ==
    /\ Len(sFooter) > 0 =>
          /\ sFooter[1] = Digest(sHash)
          /\ sReadBytes = SentRegion
          /\ wire = sHash \o sFooter[1] \/ tamper # "none"
          /\ IF Compression = CompressionZstd
             THEN /\ Dechunk(sHash).ok
                  /\ Dechunk(sHash).rest = <<>>
                  /\ Dechunk(sHash).payload = ZstdEncode(SentRegion)
                  /\ sHash # SentRegion
             ELSE sHash = SentRegion
    /\ (Undisturbed /\ Len(rFooter) > 0) => rHash = sHash

\* Without compression the hash domain is the claimed one.
HashDomainNone == Compression # CompressionZstd => C3_HashDomain

HashOverWireZstd ==
    /\ Undisturbed /\ Compression = CompressionZstd
    /\ Len(sFooter) > 0 /\ Len(rFooter) > 0
    /\ Len(SentRegion) > 0
    /\ rpc = "done"

\* C4 (as claimed): a byte of the content region or of the footer altered in
\* transit makes the receive session end with a checksum mismatch, with and
\* without compression.
C4_Original ==
    (tamper # "none" /\ rpc \in {"done", "error", "extract"})
    => (rpc = "error" /\ rErr = "checksum")

\* C4 (amended): a byte of the content region or of the footer altered in
\* transit never lets the receive session succeed.  Without compression, and
\* for an altered footer byte with or without compression, the session ends
\* with a checksum mismatch.  With compression an altered content byte ends
\* the session with a checksum mismatch, a content (framing or decoder)
\* error, or a footer that cannot be read.
C4_HashCoverage ==
    tamper # "none" =>
       /\ rpc \notin {"done", "extract"}
       /\ rComplete = 0 /\ ~extracted
       /\ rpc = "error" =>
             /\ rErr \in {"checksum", "content", "footer"}
             /\ Compression = CompressionNone => rErr = "checksum"
             /\ tamper = "footer" => rErr = "checksum"

C4_Witness ==
    /\ tamper = "content" /\ Compression = CompressionNone
    /\ rpc = "error" /\ rErr = "checksum"

C4_WitnessFooter ==
    /\ tamper = "footer" /\ Compression = CompressionZstd
    /\ rpc = "error" /\ rErr = "checksum"

C4_WitnessDecoder ==
    /\ tamper = "content" /\ Compression = CompressionZstd
    /\ rpc = "error" /\ rErr = "content"

\* The target path holds a proper prefix of the source.
PartialTarget ==
    /\ ~isDir
    /\ target0.kind = "file"
    /\ Len(target0.data) < fileSize
    /\ IsPrefix(target0.data, content)

\* The resume without its footer: the receiver requests offset k, the sender
\* seeks to k and reads exactly the N - k bytes [k, N) of the source, the
\* content region carries those bytes, and the session ends with the target
\* file equal to the whole source.
ResumeStreams ==
    (Undisturbed /\ PartialTarget) =>
       LET k == Len(target0.data)
       IN  /\ Len(r2s) > 0 => r2s[1].offset = k
           /\ Len(seeks) > 0 => seeks[1] = k
           /\ spc \in {"close", "footer", "done"} =>
                 /\ sReadBytes = SubSeq(content, k + 1, fileSize)
                 /\ Len(sReadBytes) = fileSize - k
           /\ spc = "done" =>
                 IF Compression = CompressionZstd
                 THEN ZstdDecode(Dechunk(sHash).payload).data
                         = SubSeq(content, k + 1, fileSize)
                 ELSE sHash = SubSeq(content, k + 1, fileSize)
           /\ SessionEnded =>
                 /\ rpc = "done"
                 /\ target = RegularFile(content)
                 /\ Len(target.data) = fileSize

\* C5 (as claimed): with a source of N bytes and a regular target file
\* holding its first k < N bytes, the receiver requests offset k, the sender
\* seeks to k and streams exactly the N - k uncompressed bytes [k, N), the
\* footer is the digest of the uncompressed bytes [k, N), and the session
\* ends with the target file equal to the whole source.
C5_Resume ==
    /\ ResumeStreams
    /\ (Undisturbed /\ PartialTarget /\ spc = "done") =>
          sFooter[1] = Digest(SubSeq(content, Len(target0.data) + 1, fileSize))

\* Without compression the resume is the claimed one, footer included.
ResumeNone == Compression # CompressionZstd => C5_Resume

ResumeDone ==
    /\ Undisturbed /\ PartialTarget
    /\ Len(target0.data) > 0
    /\ rpc = "done" /\ spc = "done"
    /\ target = RegularFile(content)

ResumeDoneZstd == ResumeDone /\ Compression = CompressionZstd

\* C6 (as claimed): the resume negotiation is total: once the header is read,
\* one of the four outcomes (temp file, append, truncate, create) has been
\* taken and an offset is sent; the receiver does not crash.
C6_Original ==
    Len(rHeader) > 0 => (openMode \in {"temp", "append", "create"} /\ rpc # "panic")

\* The negotiation as the code makes it.  Once the header is read: is_archive -> offset 0 and a fresh
\* temporary file, the target path untouched; a regular target file with
\* len < size -> offset = len, opened for append, its bytes kept; a regular
\* target file with len >= size -> offset 0 and the file truncated; an absent
\* target -> offset 0 and the file created; a target path that is a directory
\* -> the open fails and the receiver panics, no request sent.
\* Every offset sent satisfies 0 <= offset < size or offset = 0.
C6_Negotiation ==
    Len(rHeader) > 0 =>
       LET h == rHeader[1]
           opened == rpc = "sendReq"
       IN  /\ h = FileHeader
           /\ h.is_archive =>
                 /\ rOffset = 0 /\ openMode = "temp"
                 /\ target = target0
                 /\ opened => temp = RegularFile(<<>>)
           /\ (~h.is_archive /\ target0.kind = "file" /\ Len(target0.data) < h.size) =>
                 /\ rOffset = Len(target0.data) /\ openMode = "append"
                 /\ target = RegularFile(target0.data \o rGot)
                 /\ temp = Absent
           /\ (~h.is_archive /\ target0.kind = "file" /\ Len(target0.data) >= h.size) =>
                 /\ rOffset = 0 /\ openMode = "create"
                 /\ target = RegularFile(rGot)
                 /\ temp = Absent
           /\ (~h.is_archive /\ target0.kind = "absent") =>
                 /\ rOffset = 0 /\ openMode = "create"
                 /\ target = RegularFile(rGot)
                 /\ temp = Absent
           /\ (~h.is_archive /\ target0.kind = "dir") =>
                 /\ rpc = "panic" /\ rErr = "none"
                 /\ Len(r2s) = 0
                 /\ target = target0 /\ temp = Absent
           /\ Len(r2s) > 0 =>
                 /\ r2s[1].offset = rOffset
                 /\ (0 <= rOffset /\ rOffset < h.size) \/ rOffset = 0

C6_WitnessAppend ==
    /\ rpc = "consume" /\ openMode = "append" /\ rOffset > 0

C6_WitnessTruncate ==
    /\ rpc = "consume" /\ openMode = "create"
    /\ target0.kind = "file" /\ Len(target0.data) > 0
    /\ target = RegularFile(<<>>)

C6_WitnessTemp ==
    /\ rpc = "consume" /\ openMode = "temp" /\ temp = RegularFile(<<>>)

C6_WitnessDirectory ==
    /\ rpc = "panic" /\ target0.kind = "dir"

\* The clamp without its footer: a request whose offset is greater than size
\* makes the sender position the source at 0 and stream the whole content
\* [0, size).
ClampStreams ==
    (Len(seeks) > 0 /\ r2s[1].offset > fileSize) =>
       /\ seeks[1] = 0
       /\ spc # "failed" \/ sErr = "write"
       /\ spc \in {"close", "footer", "done"} => sReadBytes = content
       /\ spc = "done" =>
             /\ wire = sHash \o sFooter[1]
             /\ IF Compression = CompressionZstd
                THEN ZstdDecode(Dechunk(sHash).payload).data = content
                ELSE sHash = content

\* C7 (as claimed): a request whose offset is greater than size makes the
\* sender position the source at 0, stream the whole content [0, size) and
\* send a footer that is the digest of the uncompressed content [0, size).
C7_InvalidOffsetClamp ==
    /\ ClampStreams
    /\ (Len(seeks) > 0 /\ r2s[1].offset > fileSize /\ spc = "done") =>
          sFooter[1] = Digest(content)

\* Without compression the clamp is the claimed one, footer included.
ClampNone == Compression # CompressionZstd => C7_InvalidOffsetClamp

ClampDone ==
    /\ Len(seeks) > 0 /\ r2s[1].offset > fileSize
    /\ fileSize > 0
    /\ spc = "done" /\ sReadBytes = content

ClampDoneZstd == ClampDone /\ Compression = CompressionZstd

\* C8 (as claimed): whatever offset the request carries, negative ones
\* included, the offset the sender passes to Seek lies in [0, size], the seek
\* succeeds and size - offset bytes are streamed.
C8_OffsetRange ==
    Len(seeks) > 0 =>
       /\ 0 <= seeks[1] /\ seeks[1] <= fileSize
       /\ sErr # "seek"
       /\ spc = "done" => Len(sReadBytes) = fileSize - seeks[1]

\* C9: the approval callback is consulted before anything is written; after a
\* denial the connection is closed, no header byte and no other byte has been
\* written on it, and neither OnComplete nor OnError has been invoked.
C9_ApprovalGating ==
    /\ (Len(hdr) > 0 \/ Len(wire) > 0) => (Len(sTrace) > 0 /\ sTrace[1] = "approve")
    /\ spc = "accepted" => (Len(hdr) = 0 /\ Len(wire) = 0)
    /\ spc = "rejected" =>
          /\ Len(hdr) = 0 /\ Len(wire) = 0
          /\ sClosed
          /\ onComplete = 0 /\ onError = 0
          /\ sTrace = <<"approve">>

C9_Witness ==
    /\ spc = "rejected"
    /\ rpc = "error" /\ rErr = "connect"

\* The place of an operation in the protocol order of a connection.
Rank(tag) ==
    CASE tag = "approve"  -> 1
      [] tag = "header"   -> 2
      [] tag = "request"  -> 3
      [] tag = "content"  -> 4
      [] tag = "sentinel" -> 5
      [] tag = "footer"   -> 6

Has(trace, tag) == \E i \in 1..Len(trace) : trace[i] = tag

InOrder(trace) ==
    \A i \in 1..Len(trace) : \A j \in 1..Len(trace) :
        i < j => Rank(trace[i]) < Rank(trace[j])

\* C10: on a connection the sender writes the header first, writes no content
\* byte before it has read the request, and writes the footer only after all
\* content bytes and, when compressed, after the sentinel; the receiver
\* writes its request only after reading the header and reads the footer only
\* after the content region has ended.
C10_ProtocolOrder ==
    /\ InOrder(sTrace)
    /\ Has(sTrace, "header") => Has(sTrace, "approve")
    /\ Has(sTrace, "request") => (Has(sTrace, "header") /\ Len(hdr) = 1)
    /\ Len(wire) > 0 => (Has(sTrace, "request") /\ Len(seeks) = 1)
    /\ Has(sTrace, "content") => Has(sTrace, "request")
    /\ Has(sTrace, "sentinel") =>
          (Compression = CompressionZstd /\ Len(zOut) = 0 /\ sPos = fileSize)
    /\ Has(sTrace, "footer") =>
          /\ Has(sTrace, "request")
          /\ sPos = fileSize
          /\ Len(sReadBytes) = fileSize - seeks[1]
          /\ Compression = CompressionZstd => Has(sTrace, "sentinel")
          /\ Compression = CompressionZstd =>
                (Dechunk(sHash).ok /\ Dechunk(sHash).rest = <<>>)
          /\ Compression # CompressionZstd => sHash = sReadBytes
    /\ InOrder(rTrace)
    /\ Has(rTrace, "request") => (Has(rTrace, "header") /\ Len(rHeader) = 1)
    /\ Len(r2s) > 0 /\ peer = "honest" => Has(rTrace, "header")
    /\ Has(rTrace, "content") => Has(rTrace, "request")
    /\ Has(rTrace, "footer") =>
          /\ Has(rTrace, "request")
          /\ IF rHeader[1].compression = CompressionZstd
             THEN /\ currChunk = U32Zero
                  /\ Len(rHash) >= 4
                  /\ SubSeq(rHash, Len(rHash) - 3, Len(rHash)) = ChunkedClose
             ELSE Len(rGot) = rHeader[1].size - rOffset

C10_Witness ==
    /\ Compression = CompressionZstd
    /\ sTrace = <<"approve", "header", "request", "content", "sentinel", "footer">>
    /\ rTrace = <<"header", "request", "content", "footer">>
    /\ rpc = "done"

C10_WitnessNone ==
    /\ Compression = CompressionNone
    /\ sTrace = <<"approve", "header", "request", "content", "footer">>
    /\ rTrace = <<"header", "request", "content", "footer">>
    /\ rpc = "done"

\* ------------------------------------------------------------ session properties

Honest(c) == clients[c].kind = "honest"

\* C11: with several receivers connected to one session at the same time,
\* under every interleaving of their handlers: the temp archive is created
\* once per session for a directory (in Prepare) and never for a file or per
\* connection; every header written is the session's header, the same on
\* every connection; a receiver whose handler completed has verified its
\* checksum and holds exactly the source's bytes, and has succeeded unless the
\* extraction of an archive failed on its side; no receiver succeeds
\* otherwise; and no handler serving a receiver fails, unless the session has
\* returned and removed the temp archive before the handler opened it.
C11_ConcurrentReceivers ==
    /\ archivesCreated = (IF isDir /\ lifecycle # "preparing" THEN 1 ELSE 0)
    /\ \A c \in Conns :
          /\ Len(handlers[c].hdr) <= 1
          /\ handlers[c].hdr # <<>> => handlers[c].hdr[1] = FileHeader
          /\ \A d \in Conns :
                (handlers[c].hdr # <<>> /\ handlers[d].hdr # <<>>)
                => handlers[c].hdr = handlers[d].hdr
    /\ \A c \in Conns :
          (Honest(c) /\ clients[c].pc = "ended") =>
             /\ handlers[c].pc = "done" =>
                   /\ clients[c].verified
                   /\ clients[c].result = "ok" \/ isDir
                   /\ clients[c].got = content
                   /\ clients[c].header = <<FileHeader>>
                   /\ handlers[c].report = "complete"
             /\ clients[c].result = "ok" => (handlers[c].pc = "done" /\ clients[c].verified)
    /\ \A c \in Conns :
          (Honest(c) /\ handlers[c].pc = "failed") =>
             (handlers[c].err = "open" /\ isDir /\ lifecycle = "returned")

C11_Witness ==
    /\ isDir /\ Len(content) > 0
    /\ overlap
    /\ \A c \in Conns :
          /\ Honest(c) /\ clients[c].pc = "ended"
          /\ clients[c].result = "ok" /\ clients[c].got = content

C11_WitnessZstd ==
    /\ FileHeader.compression = CompressionZstd /\ Len(content) > 0
    /\ overlap
    /\ \A c \in Conns : Honest(c) /\ clients[c].result = "ok"

\* C12 (as claimed): once the context is cancelled, a handler whose
\* connection was accepted before that, serving a receiver that keeps to the
\* protocol, has not failed: it sends all content and the footer, also when the source is
\* a directory served from the temp archive.
C12_GracefulStop ==
    \A c \in Conns :
       (ctxDone /\ Honest(c) /\ ~handlers[c].late) => handlers[c].pc # "failed"

\* C13 (as claimed): the failure of one connection's handler is reported for
\* that connection only and takes nothing else down: the process keeps
\* running, the listener is closed only by the cancellation of the context or
\* by the return of the session on an error of its own, and only failed
\* handlers have reported an error.
C13_ErrorIsolation ==
    /\ ~crashed
    /\ listener = "closed" => (ctxDone \/ lifecycle = "returned")
    /\ \A c \in Conns :
          handlers[c].report = "error" <=> handlers[c].pc = "failed"

\* C19 (as claimed): a request record announced with a length above 65,536
\* makes the handler fail that connection with an error, no content byte
\* sent and the source not positioned.
C19_OversizedRequest ==
    \A c \in Conns :
       (/\ handlers[c].req # <<>>
        /\ handlers[c].req[1].payload # "eof"
        /\ handlers[c].req[1].len > MaxRecordLen)
       => /\ handlers[c].pc = "failed"
          /\ handlers[c].report = "error"
          /\ handlers[c].wire = <<>>
          /\ handlers[c].seeks = <<>>

\* ------------------------------------------------------------ sender control properties

\* C14 (as claimed): at most one sender session (StartSenderWithOptions
\* started and not returned) exists at any time, and no StartSending call
\* gets past the isSending test while a session is running.
C14_SingleSession ==
    /\ Cardinality(Running) <= 1
    /\ \A k \in Callers : ~callers[k].raced

\* ------------------------------------------------------------ extraction properties

\* The working directory relative paths are resolved against.
Cwd == Str(<<"/", "w", "/", "h">>)

\* filepath.Abs
Abs(path) == IF Rooted(path) THEN Clean(path) ELSE Join(Cwd, path)

\* path names something strictly below the directory d.
ProperDescendant(path, d) ==
    LET a == Abs(path)
        r == Abs(d)
    IN  /\ a # r
        /\ IsPrefix(IF r = <<"/">> THEN r ELSE r \o <<"/">>, a)

SafeEntry(f) == ProperDescendant(Join(dest, f.name), dest)

\* C15 (as claimed): every path unzip creates or writes for an entry is a
\* proper descendant of the destination directory (the directories it makes
\* above a file reach no higher than the destination); every entry it handled was one
\* whose joined, cleaned path is a proper descendant; and an entry whose path
\* is not fails the extraction with the unsafe-path error.
C15_SafeExtraction ==
    /\ \A i \in 1..Len(fsPaths) :
          \/ ProperDescendant(fsPaths[i].path, dest)
          \/ fsPaths[i].op = "parents" /\ Abs(fsPaths[i].path) = Abs(dest)
    /\ \A j \in 1..zi : SafeEntry(zipFiles[j])
    /\ (unzipErr \in {"illegal", "io"} /\ ~SafeEntry(zipFiles[zi + 1]))
       => unzipErr = "illegal"

\* ------------------------------------------------------------ chunked stream properties

\* C16: what a ChunkedReader has delivered is always a prefix of the payload
\* written, whatever the Write sizes and the read-buffer sizes; it reports end
\* of stream only after the writer's Close, having delivered the whole
\* payload and consumed every byte produced; and once it has consumed every
\* byte of a closed stream it is at end of stream.
C16_ChunkFraming ==
    /\ IsPrefix(crOut, cwS)
    /\ crEof => (cwClosed /\ crOut = cwS /\ crPos = Len(cwWire))
    /\ (crErr = "EOF") <=> crEof
    /\ (cwClosed /\ crPos = Len(cwWire)) => (crEof /\ crOut = cwS)

\* A payload of two chunks or more was read to end of stream.
C16_Witness ==
    /\ crEof
    /\ Len(cwS) >= 2
    /\ Len(cwWire) >= Len(cwS) + 12
    /\ crOut = cwS

\* ------------------------------------------------------------ mismatch properties

\* What this session's destFile holds after its writes: an appended file
\* keeps what it held before, a created or temporary file starts empty.
WrittenFile ==
    RegularFile((IF openMode = "append" THEN target0.data ELSE <<>>) \o rGot)

\* C17: when the footer read differs from the digest computed, the session
\* has returned the checksum error without completing; the file it wrote (the
\* target, or the temporary archive of a directory transfer) is still there
\* with every byte written to it, and for an archive nothing was extracted
\* and the target path is as it was.
C17_MismatchKeepsPartial ==
    (Len(rFooter) > 0 /\ rFooter[1] # Digest(rHash)) =>
       /\ rpc = "error" /\ rErr = "checksum"
       /\ rComplete = 0
       /\ ~extracted
       /\ IF rHeader[1].is_archive
          THEN temp = WrittenFile /\ target = target0
          ELSE target = WrittenFile /\ temp = Absent

\* A resumed plain transfer that wrote bytes and failed its checksum.
C17_Witness ==
    /\ rErr = "checksum"
    /\ openMode = "append" /\ rOffset > 0
    /\ Len(rGot) > 0
    /\ target = WrittenFile

\* A directory transfer that wrote bytes to the temporary archive and failed
\* its checksum.
C17_WitnessArchive ==
    /\ rErr = "checksum"
    /\ rHeader[1].is_archive
    /\ Len(rGot) > 0
    /\ temp = WrittenFile

\* ------------------------------------------------------------ header intake properties

\* C18: once the receiver has read an announced header length above 65,536
\* it has failed with the length error, and the length is all it has read: no
\* buffer allocated, no payload read, no directory or file created, truncated
\* or opened, no request sent.  A length of 65,536 or less is never refused as
\* too large.
C18_OversizedHeader ==
    /\ (annLen > MaxRecordLen /\ annPayload # "none" /\ xpc # "readLen")
       => (xpc = "error" /\ xErr = "toolarge" /\ xOps = <<"length">>)
    /\ xErr = "toolarge" => annLen > MaxRecordLen

\* A well-formed header padded to 65,537 bytes was refused.
C18_Witness ==
    /\ annLen = MaxRecordLen + 1
    /\ annPayload = "valid"
    /\ xpc = "error" /\ xErr = "toolarge"

\* A well-formed header of exactly 65,536 bytes was accepted and answered.
C18_WitnessAtLimit ==
    /\ annLen = MaxRecordLen
    /\ annPayload = "valid"
    /\ xpc = "consume"

\* ------------------------------------------------------------ compression policy properties

\* The extension of a name as the policy's table reads it: what follows the
\* last dot of the last path element, in lower case; empty without a dot.
ExtensionOf(name) ==
    LET base == Drop(name, LastSlash(name))
        dots == {i \in 1..Len(base) : base[i] = "."}
    IN  IF dots = {} THEN <<>>
        ELSE ToLower(Drop(base, CHOOSE i \in dots : \A j \in dots : j <= i))

ListedNone ==
    { <<"j","p","g">>, <<"p","n","g">>, <<"m","p","4">>, <<"z","i","p">>, <<"i","s","o">>,
      <<"d","m","g">>, <<"g","z">>, <<"z","s","t">>, <<"7","z">>, <<"r","a","r">> }

ListedZstd ==
    { <<"t","x","t">>, <<"l","o","g">>, <<"j","s","o","n">>, <<"m","d">>, <<"g","o">> }

\* The table of the policy.
PolicyMode(ext, isArchive) ==
    IF isArchive THEN CompressionNone
    ELSE IF ext \in ListedNone THEN CompressionNone
    ELSE IF ext \in ListedZstd THEN CompressionZstd
    ELSE CompressionNone

\* C20: the mode advertised on every connection of a session is the one the
\* table gives for (extension of the name, is_archive), the extension taken
\* without regard to letter case: none for an archive, none for jpg, png,
\* mp4, zip, iso, dmg, gz, zst, 7z, rar, zstd for txt, log, json, md, go,
\* none for every other extension.  It is none or zstd, never gzip, and the
\* same on all connections.
C20_CompressionPolicy ==
    \A i \in 1..Len(polModes) :
       /\ polModes[i] = PolicyMode(ExtensionOf(polName), polIsDir)
       /\ polModes[i] \in {CompressionNone, CompressionZstd}
       /\ polModes[i] # CompressionGzip
       /\ polModes[i] = polModes[1]

\* A directory whose name ends in a compressible extension was advertised
\* uncompressed on every connection.
C20_Witness ==
    /\ polIsDir
    /\ ExtensionOf(polName) \in ListedZstd
    /\ Len(polModes) = PolConns
    /\ polModes[PolConns] = CompressionNone

\* A file with an upper-case compressible extension was advertised as zstd.
C20_WitnessZstd ==
    /\ ~polIsDir
    /\ Ext(polName) = <<".","T","X","T">>
    /\ Len(polModes) = PolConns
    /\ polModes[PolConns] = CompressionZstd

\* ------------------------------------------------------------ target naming

\* Names a header may carry.
HeaderNames ==
    { Str(<<"a">>), Str(<<"d", "/", "a">>), Str(<<".", ".", "/", "a">>),
      Str(<<"/", "a">>), Str(<<"a", "/">>), Str(<<>>), Str(<<".">>),
      Str(<<"/">>), Str(<<"/", "/">>), Str(<<" ">>), Str(<<".", ".">>),
      Str(<<"d", "/", ".", ".">>), Str(<<".", ".", "/", ".", ".">>),
      Str(<<"\t">>), Str(<<"a", "/", "\n", " ">>), Str(<<"\t", "a">>) }

DownloadDirs == { Str(<<"o">>), Str(<<"/", "w", "/", "o">>) }

\* Where os.CreateTemp("", ...) puts the temporary archive.
TempArchivePath == Str(<<"/", "t", "/", "z">>)

InitNaming ==
    /\ CoreAtRest /\ StartupAtRest /\ ScanAtRest /\ WriterAtRest /\ LateAtRest
    /\ nmName \in HeaderNames
    /\ nmDir \in DownloadDirs
    /\ nmArchive \in BOOLEAN
    /\ nmSafe = <<>>
    /\ nmOpens = <<>>
    /\ nmpc = "header"

\* safeName := utils.SanitizeFilename(header.Name); the download directory
\* is made.
NmSanitize ==
    /\ nmpc = "header"
    /\ nmSafe' = SanitizeFilename(nmName)
    /\ nmpc' = "named"
    /\ UNCHANGED <<nmName, nmDir, nmArchive, nmOpens>>
    /\ UNCHANGED outsideNaming

\* The directories that exist when destFile is opened: the download
\* directory and everything above it.
ExistingDirs == {Abs(nmDir)} \cup Ancestors(Abs(nmDir))

\* destFile is opened: a temporary file for an archive, else finalPath, where
\* a regular file may be (exists) or not.  os.Create on a directory fails and
\* destFile.Name() panics on the nil file.
NmOpen(exists) ==
    /\ nmpc = "named"
    /\ IF nmArchive
       THEN /\ ~exists
            /\ nmOpens' = Append(nmOpens, [path |-> TempArchivePath, how |-> "temp"])
            /\ nmpc' = "opened"
       ELSE LET finalPath == Join(nmDir, nmSafe)
            IN  IF Abs(finalPath) \in ExistingDirs
                THEN /\ ~exists
                     /\ nmOpens' = Append(nmOpens, [path |-> finalPath, how |-> "failed"])
                     /\ nmpc' = "panic"
                ELSE /\ nmOpens' = Append(nmOpens,
                            [path |-> finalPath,
                             how  |-> IF exists THEN "existing" ELSE "create"])
                     /\ nmpc' = "opened"
    /\ UNCHANGED <<nmName, nmDir, nmArchive, nmSafe>>
    /\ UNCHANGED outsideNaming

NextNaming ==
    \/ NmSanitize
    \/ \E exists \in BOOLEAN : NmOpen(exists)

SpecNaming == InitNaming /\ [][NextNaming]_vars

\* ------------------------------------------------------------ target naming properties

DownloadedFile == <<"d","o","w","n","l","o","a","d","e","d","_","f","i","l","e">>

OnlySeparators(name) == \A i \in 1..Len(name) : name[i] = "/"

\* C21 (as claimed): the safe name derived from any header name is not
\* empty, holds no path separator and is neither "." nor ".."; an empty name
\* and a name of separators only become downloaded_file; and every target
\* path the receiver opens is a direct child of the download directory.
C21_FilenameSafety ==
    /\ nmpc \in {"named", "opened", "panic"} =>
          /\ nmSafe # <<>>
          /\ \A i \in 1..Len(nmSafe) : nmSafe[i] # "/"
          /\ nmSafe # <<".">> /\ nmSafe # <<".", ".">>
          /\ OnlySeparators(nmName) => nmSafe = DownloadedFile
    /\ \A i \in 1..Len(nmOpens) :
          nmOpens[i].how # "temp" =>
             /\ Abs(nmOpens[i].path) # Abs(nmDir)
             /\ Dir(Abs(nmOpens[i].path)) = Abs(nmDir)

\* ------------------------------------------------------------ archive receipt properties

ArchiveReceipt == Len(rHeader) > 0 /\ rHeader[1].is_archive

\* C22: in a transfer announced as an archive the received bytes go to the
\* temporary file and never to the target path; the archive is extracted,
\* and the session completes, only after a footer was read that equals the
\* digest computed; and a completed session has extracted the archive and
\* removed the temporary file.
C22_VerifyBeforeExtract ==
    ArchiveReceipt =>
       /\ target = target0
       /\ ~extracted => temp = RegularFile(rGot)
       /\ (extracted \/ rpc = "extract" \/ rComplete > 0) =>
             (Len(rFooter) = 1 /\ rFooter[1] = Digest(rHash))
       /\ rComplete > 0 => extracted
       /\ rpc = "done" <=> (extracted /\ temp = Absent /\ rComplete = 1)

\* A directory transfer with content completed.
C22_Witness ==
    /\ ArchiveReceipt
    /\ Len(rGot) > 0
    /\ rpc = "done" /\ extracted /\ temp = Absent

\* C23 (as claimed): when a receive session of an archive transfer has
\* returned, with or without an error, its temporary archive file is gone.
C23_TempRelease ==
    (ArchiveReceipt /\ rpc \in {"done", "error"}) => temp = Absent

\* ------------------------------------------------------------ sender startup

InitStartup ==
    /\ CoreAtRest /\ NamingAtRest /\ ScanAtRest /\ WriterAtRest /\ LateAtRest
    /\ stPath \in {"file", "dir", "missing"}
    /\ stAllowNil \in BOOLEAN
    /\ stpc = "stat"
    /\ stTemp = "none"
    /\ stListener = "none"
    /\ stPorts = 0
    /\ stAnnounce = "none"
    /\ stCtxDone = FALSE
    /\ stErr = "none"
    /\ stConn = "none"
    /\ stCrashed = FALSE

\* A return that runs none of the deferred calls.
StReturn_NoCleanup(err) ==
    /\ stpc' = "returned"
    /\ stErr' = err
    /\ UNCHANGED <<stTemp, stListener, stAnnounce>>

\* StartSenderWithOptions returns err; the deferred shutdownDiscovery,
\* listener.Close and cleanup that were registered run.
StReturn(err) ==
    /\ stpc' = "returned"
    /\ stErr' = err
    /\ stTemp' = IF stTemp = "present" THEN "removed" ELSE stTemp
    /\ stListener' = IF stListener = "open" THEN "closed" ELSE stListener
    /\ stAnnounce' = IF stAnnounce = "published" THEN "shutdown" ELSE stAnnounce

\* A start that takes a path it could not stat for a regular file.
StStat_Unchecked ==
    /\ ~stCrashed
    /\ stpc = "stat"
    /\ stpc' = IF stPath = "dir" THEN "createTemp" ELSE "cert"
    /\ UNCHANGED <<stPath, stAllowNil, stTemp, stListener, stPorts, stAnnounce,
                   stCtxDone, stErr, stConn, stCrashed>>
    /\ UNCHANGED outsideStartup

\* os.Stat(inputPath)
StStat ==
    /\ ~stCrashed
    /\ stpc = "stat"
    /\ IF stPath = "missing"
       THEN StReturn("stat")
       ELSE /\ stpc' = IF stPath = "dir" THEN "createTemp" ELSE "cert"
            /\ UNCHANGED <<stTemp, stListener, stAnnounce, stErr>>
    /\ UNCHANGED <<stPath, stAllowNil, stPorts, stCtxDone, stConn, stCrashed>>
    /\ UNCHANGED outsideStartup

\* os.CreateTemp("", "synapse-*.zip")
StCreateTemp(ok) ==
    /\ ~stCrashed
    /\ stpc = "createTemp"
    /\ IF ok
       THEN /\ stTemp' = "present"
            /\ stpc' = "zip"
            /\ UNCHANGED <<stListener, stAnnounce, stErr>>
       ELSE StReturn("createTemp")
    /\ UNCHANGED <<stPath, stAllowNil, stPorts, stCtxDone, stConn, stCrashed>>
    /\ UNCHANGED outsideStartup

\* zipDirectory(inputPath, tmpFile); on failure the temp file is closed and
\* removed before the return.
StZip(ok) ==
    /\ ~stCrashed
    /\ stpc = "zip"
    /\ IF ok
       THEN /\ stpc' = "tempStat"
            /\ UNCHANGED <<stTemp, stListener, stAnnounce, stErr>>
       ELSE /\ stTemp' = "removed"
            /\ stpc' = "returned"
            /\ stErr' = "zip"
            /\ UNCHANGED <<stListener, stAnnounce>>
    /\ UNCHANGED <<stPath, stAllowNil, stPorts, stCtxDone, stConn, stCrashed>>
    /\ UNCHANGED outsideStartup

\* tmpFile.Stat(); on failure the temp file is closed and removed before the
\* return.  On success cleanup is deferred.
StTempStat(ok) ==
    /\ ~stCrashed
    /\ stpc = "tempStat"
    /\ IF ok
       THEN /\ stpc' = "cert"
            /\ UNCHANGED <<stTemp, stListener, stAnnounce, stErr>>
       ELSE /\ stTemp' = "removed"
            /\ stpc' = "returned"
            /\ stErr' = "tempStat"
            /\ UNCHANGED <<stListener, stAnnounce>>
    /\ UNCHANGED <<stPath, stAllowNil, stPorts, stCtxDone, stConn, stCrashed>>
    /\ UNCHANGED outsideStartup

\* GenerateTLSCertificate()
StCert(ok) ==
    /\ ~stCrashed
    /\ stpc = "cert"
    /\ IF ok
       THEN /\ stpc' = "listen"
            /\ UNCHANGED <<stTemp, stListener, stAnnounce, stErr>>
       ELSE StReturn("cert")
    /\ UNCHANGED <<stPath, stAllowNil, stPorts, stCtxDone, stConn, stCrashed>>
    /\ UNCHANGED outsideStartup

\* tls.Listen("tcp", ":0", tlsConfig)
StListen(ok) ==
    /\ ~stCrashed
    /\ stpc = "listen"
    /\ IF ok
       THEN /\ stListener' = "open"
            /\ stpc' = "port"
            /\ UNCHANGED <<stTemp, stAnnounce, stErr>>
       ELSE StReturn("listen")
    /\ UNCHANGED <<stPath, stAllowNil, stPorts, stCtxDone, stConn, stCrashed>>
    /\ UNCHANGED outsideStartup

\* opts.PortChan <- port
StReportPort ==
    /\ ~stCrashed
    /\ stpc = "port"
    /\ stPorts' = stPorts + 1
    /\ stpc' = "announce"
    /\ UNCHANGED <<stPath, stAllowNil, stTemp, stListener, stAnnounce, stCtxDone,
                   stErr, stConn, stCrashed>>
    /\ UNCHANGED outsideStartup

\* discovery.Announce(announceCtx, port); on success the goroutine that
\* closes the listener on cancellation is started and the accept loop entered.
StAnnounce(ok) ==
    /\ ~stCrashed
    /\ stpc = "announce"
    /\ IF ok
       THEN /\ stAnnounce' = "published"
            /\ stpc' = "accept"
            /\ UNCHANGED <<stTemp, stListener, stErr>>
       ELSE StReturn("announce")
    /\ UNCHANGED <<stPath, stAllowNil, stPorts, stCtxDone, stConn, stCrashed>>
    /\ UNCHANGED outsideStartup

\* opts.Ctx is cancelled by its owner.
StCancel ==
    /\ ~stCrashed
    /\ ~stCtxDone
    /\ stCtxDone' = TRUE
    /\ UNCHANGED <<stPath, stAllowNil, stpc, stTemp, stListener, stPorts, stAnnounce,
                   stErr, stConn, stCrashed>>
    /\ UNCHANGED outsideStartup

\* go func() { <-ctx.Done(); listener.Close() }()
StWatch ==
    /\ ~stCrashed
    /\ stCtxDone
    /\ stpc = "accept"
    /\ stListener = "open"
    /\ stListener' = "closed"
    /\ UNCHANGED <<stPath, stAllowNil, stpc, stTemp, stPorts, stAnnounce, stCtxDone,
                   stErr, stConn, stCrashed>>
    /\ UNCHANGED outsideStartup

\* listener.Accept() returns a connection; its handler goroutine starts.
StAccept ==
    /\ ~stCrashed
    /\ stpc = "accept"
    /\ stListener = "open"
    /\ stConn = "none"
    /\ stConn' = "accepted"
    /\ UNCHANGED <<stPath, stAllowNil, stpc, stTemp, stListener, stPorts, stAnnounce,
                   stCtxDone, stErr, stCrashed>>
    /\ UNCHANGED outsideStartup

\* listener.Accept() fails, as it does on the closed listener: return nil.
StAcceptFails ==
    /\ ~stCrashed
    /\ stpc = "accept"
    /\ stListener \in {"open", "closed"}
    /\ StReturn("nil")
    /\ UNCHANGED <<stPath, stAllowNil, stPorts, stCtxDone, stConn, stCrashed>>
    /\ UNCHANGED outsideStartup

\* The handler calls opts.AllowConn(c.RemoteAddr().String()).  Calling a nil
\* func panics; nothing recovers it, so the process is terminated.
StHandler(approved) ==
    /\ ~stCrashed
    /\ stConn = "accepted"
    /\ IF stAllowNil
       THEN /\ approved
            /\ stConn' = "panic"
            /\ stCrashed' = TRUE
       ELSE /\ stConn' = IF approved THEN "approved" ELSE "rejected"
            /\ UNCHANGED stCrashed
    /\ UNCHANGED <<stPath, stAllowNil, stpc, stTemp, stListener, stPorts, stAnnounce,
                   stCtxDone, stErr>>
    /\ UNCHANGED outsideStartup

NextStartup ==
    \/ StStat
    \/ \E ok \in BOOLEAN : StCreateTemp(ok)
    \/ \E ok \in BOOLEAN : StZip(ok)
    \/ \E ok \in BOOLEAN : StTempStat(ok)
    \/ \E ok \in BOOLEAN : StCert(ok)
    \/ \E ok \in BOOLEAN : StListen(ok)
    \/ StReportPort
    \/ \E ok \in BOOLEAN : StAnnounce(ok)
    \/ StCancel
    \/ StWatch
    \/ StAccept
    \/ StAcceptFails
    \/ \E approved \in BOOLEAN : StHandler(approved)

SpecStartup == InitStartup /\ [][NextStartup]_vars

\* ------------------------------------------------------------ sender startup properties

\* C24: once StartSenderWithOptions has returned, by an error at any point
\* after the temp archive was created or by its normal return after
\* cancellation, the temp archive is removed and the listener is not open; a
\* temp archive exists only for a directory.
C24_SenderRelease ==
    /\ stpc = "returned" => (stTemp # "present" /\ stListener # "open"
                             /\ stAnnounce # "published")
    /\ stTemp # "none" => stPath = "dir"

\* A directory session returned normally after cancellation.
C24_Witness ==
    /\ stPath = "dir"
    /\ stpc = "returned" /\ stErr = "nil"
    /\ stTemp = "removed" /\ stListener = "closed"

\* A directory session failed to announce.
C24_WitnessAnnounce ==
    /\ stPath = "dir"
    /\ stpc = "returned" /\ stErr = "announce"
    /\ stTemp = "removed" /\ stListener = "closed"

\* C26: with a path that cannot be stat'ed the session has returned the stat
\* error as soon as it has taken a step, and has made no temp archive, opened
\* no listener, reported no port and published no advertisement.
C26_MissingSource ==
    (stPath = "missing" /\ stpc # "stat") =>
       /\ stpc = "returned" /\ stErr = "stat"
       /\ stTemp = "none" /\ stListener = "none"
       /\ stPorts = 0 /\ stAnnounce = "none"
       /\ stConn = "none"

C26_Witness ==
    /\ stPath = "missing"
    /\ stpc = "returned" /\ stErr = "stat"

\* C27 (as claimed): with no approval callback the session returns a startup
\* error before it accepts a connection, and no handler ever meets the
\* missing callback.
C27_AbsentCallback ==
    stAllowNil =>
       /\ stpc \notin {"stat"} => (stpc = "returned" /\ stErr \notin {"none", "nil"})
       /\ stConn = "none"
       /\ ~stCrashed

\* ------------------------------------------------------------ peer scan

\* Peers that answer a browse, and the most answers one scan receives.
PeerIds == {1, 2}
MaxAnswers == 3

\* make(chan *zeroconf.ServiceEntry, 10) in App.ScanPeers, unbuffered in
\* scanPeersCmd; the buffered capacity is scaled to ScanCap.
ScanCap == 2
ScanCaps == {0, ScanCap}

\* The scan has made its channel and deadline context and started the goroutine
\* that calls discovery.Browse; it ranges over the channel.
InitScan ==
    /\ CoreAtRest /\ NamingAtRest /\ StartupAtRest /\ WriterAtRest /\ LateAtRest
    /\ scCap \in ScanCaps
    /\ scDeadline = FALSE
    /\ scBrowse = "starting"
    /\ scChan = <<>>
    /\ scClosed = FALSE
    /\ scPeers = <<>>
    /\ scpc = "ranging"
    /\ scSeen = 0

\* discovery.Browse: zeroconf.NewResolver fails and Browse returns without
\* the channel having been given to anyone; or resolver.Browse takes the
\* channel and either runs or fails its first query.
ScBrowse(outcome) ==
    /\ scBrowse = "starting"
    /\ scBrowse' = outcome
    /\ UNCHANGED <<scCap, scDeadline, scChan, scClosed, scPeers, scpc, scSeen>>
    /\ UNCHANGED outsideScan

\* The resolver sends an answer on the channel: into the buffer, or straight to
\* the ranging scan when the channel is unbuffered.
ScDeliver(e) ==
    /\ scBrowse = "running"
    /\ ~scClosed
    /\ scSeen < MaxAnswers
    /\ scSeen' = scSeen + 1
    /\ IF scCap = 0
       THEN /\ scpc = "ranging"
            /\ scPeers' = Append(scPeers, e)
            /\ UNCHANGED scChan
       ELSE /\ Len(scChan) < scCap
            /\ scChan' = Append(scChan, e)
            /\ UNCHANGED scPeers
    /\ UNCHANGED <<scCap, scDeadline, scBrowse, scClosed, scpc>>
    /\ UNCHANGED outsideScan

\* context.WithTimeout: the deadline passes.
ScTimeout ==
    /\ ~scDeadline
    /\ scDeadline' = TRUE
    /\ UNCHANGED <<scCap, scBrowse, scChan, scClosed, scPeers, scpc, scSeen>>
    /\ UNCHANGED outsideScan

\* The resolver's main loop sees its context done (the deadline, or the cancel
\* after a failed query) and closes the channel it was given.
ScLibClose ==
    /\ \/ scBrowse = "running" /\ scDeadline
       \/ scBrowse = "failedQuery"
    /\ ~scClosed
    /\ scClosed' = TRUE
    /\ scBrowse' = "done"
    /\ UNCHANGED <<scCap, scDeadline, scChan, scPeers, scpc, scSeen>>
    /\ UNCHANGED outsideScan

\* for entry := range entries: one buffered entry is received.
ScReceive ==
    /\ scpc = "ranging"
    /\ scChan # <<>>
    /\ scPeers' = Append(scPeers, Head(scChan))
    /\ scChan' = Tail(scChan)
    /\ UNCHANGED <<scCap, scDeadline, scBrowse, scClosed, scpc, scSeen>>
    /\ UNCHANGED outsideScan

\* The range ends on the closed, drained channel; the scan returns peers.
ScReturn ==
    /\ scpc = "ranging"
    /\ scClosed
    /\ scChan = <<>>
    /\ scpc' = "returned"
    /\ UNCHANGED <<scCap, scDeadline, scBrowse, scChan, scClosed, scPeers, scSeen>>
    /\ UNCHANGED outsideScan

NextScan ==
    \/ \E outcome \in {"running", "failedResolver", "failedQuery"} : ScBrowse(outcome)
    \/ \E e \in PeerIds : ScDeliver(e)
    \/ ScTimeout
    \/ ScLibClose
    \/ ScReceive
    \/ ScReturn

\* The timer fires, and the Browse goroutine, the resolver's main loop and the
\* scanning goroutine are each scheduled when they can take a step.
SpecScan ==
    /\ InitScan
    /\ [][NextScan]_vars
    /\ WF_vars(ScTimeout)
    /\ WF_vars(\E outcome \in {"running", "failedResolver", "failedQuery"} : ScBrowse(outcome))
    /\ WF_vars(ScLibClose)
    /\ WF_vars(ScReceive)
    /\ WF_vars(ScReturn)

\* ------------------------------------------------------------ peer scan properties

\* C25: every peer scan eventually returns, whatever happens to the browse.
C25_ScanTerminates == <>(scpc = "returned")

\* ------------------------------------------------------------ startup handshake properties

\* Session x of caller k timed out: StartSending returned the timeout error.
TimedOut(k, x) ==
    /\ x \in DOMAIN sessions
    /\ callers[k].sess = x
    /\ callers[k].result = "timeout"

\* C28: the session of a StartSending that returned the timeout error
\* eventually returns and exits, and at its exit isSending is false.
C28_HandshakeTimeout ==
    \A x \in 1..MaxSessions :
       ((\E k \in Callers : TimedOut(k, x)) /\ sessions[x].pc # "exited") ~>
          (x \in DOMAIN sessions /\ sessions[x].pc = "exited" /\ ~isSending)

\* A timed-out session has exited and a later StartSending was admitted.
C28_Witness ==
    \E k \in Callers : \E x \in 1..MaxSessions :
       /\ TimedOut(k, x)
       /\ sessions[x].pc = "exited"
       /\ \E j \in Callers : callers[j].sess > x /\ callers[j].result = "started"

\* ------------------------------------------------------------ chunked writer calls

\* Calls one user makes on a ChunkedWriter.
MaxCalls == 3

\* Slices passed to Write.
WrPayloads == {<<>>, <<0>>, <<1>>, <<1, 0>>}

\* NewChunkedWriter(w)
InitWriter ==
    /\ CoreAtRest /\ NamingAtRest /\ StartupAtRest /\ ScanAtRest /\ LateAtRest
    /\ wrWire = <<>>
    /\ wrClosed = FALSE
    /\ wrCalls = <<>>

\* ChunkedWriter.Write(p): an empty slice returns (0, nil); otherwise the
\* length goes to the underlying writer, then the data.  m is what the
\* underlying writer takes: -1 when the write of the length fails, else the
\* data bytes it accepts, an error being returned unless it accepts all.  The
\* writer keeps no state between calls.
WrWrite(p, m) ==
    /\ Len(wrCalls) < MaxCalls
    /\ m <= Len(p)
    /\ Len(p) = 0 => m = 0
    /\ LET out == ChunkedWrite(p)
           k   == Len(out) - Len(p)
           emitted == IF m < 0 THEN <<>> ELSE Take(out, k + m)
       IN  /\ wrWire' = wrWire \o emitted
           /\ wrCalls' = Append(wrCalls,
                 [op |-> "write", p |-> p, emitted |-> emitted,
                  n |-> IF m < 0 THEN 0 ELSE m,
                  err |-> IF m = Len(p) THEN "nil" ELSE "error",
                  afterClose |-> wrClosed])
    /\ UNCHANGED wrClosed
    /\ UNCHANGED outsideWriter

\* ChunkedWriter.Close(): binary.Write of uint32(0).
WrClose(ok) ==
    /\ Len(wrCalls) < MaxCalls
    /\ LET out == IF ok THEN BE32(0) ELSE <<>>
       IN  /\ wrWire' = wrWire \o out
           /\ wrCalls' = Append(wrCalls,
                 [op |-> "close", p |-> <<>>, emitted |-> out, n |-> 0,
                  err |-> IF ok THEN "nil" ELSE "error",
                  afterClose |-> wrClosed])
    /\ wrClosed' = (wrClosed \/ ok)
    /\ UNCHANGED outsideWriter

NextWriter ==
    \/ \E p \in WrPayloads : \E m \in (0 - 1)..2 : WrWrite(p, m)
    \/ \E ok \in BOOLEAN : WrClose(ok)

SpecWriter == InitWriter /\ [][NextWriter]_vars

\* ------------------------------------------------------------ chunked writer properties

\* The chunk lengths of a framed stream, read as ChunkedReader reads them:
\* a zero length ends the reading.
RECURSIVE ChunkLengths(_)
ChunkLengths(w) ==
    IF Len(w) < 4 THEN <<>>
    ELSE LET n == FromBE32(SubSeq(w, 1, 4))
         IN  IF n = U32Zero THEN <<n>>
             ELSE <<n>> \o ChunkLengths(SubSeq(w, 5 + U32Min(Len(w), n), Len(w)))

\* The bytes of a framed stream that ChunkedReader consumes up to its end.
RECURSIVE ChunkedSpan(_)
ChunkedSpan(w) ==
    IF Len(w) < 4 THEN Len(w)
    ELSE LET n == FromBE32(SubSeq(w, 1, 4))
             k == U32Min(Len(w) - 4, n)
         IN  IF n = U32Zero THEN 4
             ELSE 4 + k + ChunkedSpan(SubSeq(w, 5 + k, Len(w)))

\* C29 (as claimed): a Write made after Close emitted the sentinel returns an
\* error and puts nothing on the underlying stream.
C29_WriteAfterClose ==
    \A i \in 1..Len(wrCalls) :
       (wrCalls[i].op = "write" /\ wrCalls[i].afterClose) =>
          (wrCalls[i].err # "nil" /\ wrCalls[i].emitted = <<>>)

\* Successful Writes followed by one successful Close.
WritesThenClose ==
    /\ Len(wrCalls) > 0
    /\ \A i \in 1..Len(wrCalls) :
          /\ wrCalls[i].err = "nil"
          /\ wrCalls[i].op = "close" <=> i = Len(wrCalls)

\* C30: a Write of an empty slice emits nothing and returns (0, nil), and the
\* stream of Writes followed by one Close has one zero-length chunk, its last:
\* a reader meets its first zero length at the very end of the stream.
C30_ZeroLengthWrite ==
    /\ \A i \in 1..Len(wrCalls) :
          (wrCalls[i].op = "write" /\ wrCalls[i].p = <<>>) =>
             (wrCalls[i].emitted = <<>> /\ wrCalls[i].n = 0 /\ wrCalls[i].err = "nil")
    /\ WritesThenClose =>
          LET ls == ChunkLengths(wrWire)
          IN  /\ Len(ls) > 0
              /\ \A j \in 1..Len(ls) : ls[j] = U32Zero <=> j = Len(ls)
              /\ ChunkedSpan(wrWire) = Len(wrWire)
              /\ Len(ls) = 1 + Cardinality({i \in 1..Len(wrCalls) :
                                              wrCalls[i].op = "write" /\ wrCalls[i].p # <<>>})

\* An empty Write before a non-empty one, then Close.
C30_Witness ==
    /\ WritesThenClose
    /\ Len(wrCalls) = 3
    /\ wrCalls[1].p = <<>>
    /\ wrCalls[2].p # <<>>
    /\ ChunkLengths(wrWire) = <<ToU32(Len(wrCalls[2].p)), U32Zero>>

\* ------------------------------------------------------------ chunked reader on a connection

\* Read calls one user makes on a ChunkedReader.
FrMaxReads == 5

\* Buffer lengths handed to Read.
FrBufs == {0, 1, 2}

\* Chunks a writer put on the stream, and what follows its sentinel on the
\* connection.
FrChunks == {<<1>>, <<0, 1>>}
FrChunkLists == SeqsUpTo(FrChunks, 2)
FrTrails == {<<>>, <<1>>, <<0, 0, 0, 1, 1>>}

\* The stream a ChunkedWriter makes of the chunks: one Write each, then Close.
RECURSIVE Framed(_)
Framed(cs) ==
    IF cs = <<>> THEN ChunkedClose
    ELSE ChunkedWrite(Head(cs)) \o Framed(Tail(cs))

\* NewChunkedReader(r) on a stream that is a writer's output followed by
\* other bytes, or a writer's output cut short by the end of the connection.
InitReader ==
    /\ CoreAtRest /\ EarlierAtRest /\ HistoryAtRest /\ ProgressAtRest
    /\ \E cs \in FrChunkLists :
          \/ \E t \in FrTrails :
                /\ frStream = Framed(cs) \o t
                /\ frFramed = Len(Framed(cs))
          \/ \E c \in 0..(Len(Framed(cs)) - 1) :
                /\ frStream = Take(Framed(cs), c)
                /\ frFramed = -1
    /\ frPos = 0
    /\ frCurrChunk = U32Zero
    /\ frEof = FALSE
    /\ frCalls = <<>>

\* A reader that forgets it has seen the sentinel.
FrAtEnd_Never(eof) == FALSE

\* if c.eof { return 0, io.EOF }
FrAtEnd(eof) == eof

\* What one Read call returned and did.
FrCall(k, n, err, pos, curr, eof) ==
    /\ frCalls' = Append(frCalls,
          [k |-> k, n |-> n, err |-> err, pos0 |-> frPos, pos1 |-> pos,
           eof0 |-> frEof, eof1 |-> eof])
    /\ frPos' = pos
    /\ frCurrChunk' = curr
    /\ frEof' = eof

\* ChunkedReader.Read(p) with len(p) = k, the underlying Read returning m
\* bytes.  binary.Read of the length returns io.EOF when the stream has ended
\* with nothing left and io.ErrUnexpectedEOF when it ends inside the four
\* bytes; the underlying Read returns io.EOF when the stream has ended.
FrRead(k, m) ==
    /\ Len(frCalls) < FrMaxReads
    /\ LET left == Len(frStream) - frPos
       IN  IF FrAtEnd(frEof)
           THEN m = 0 /\ FrCall(k, 0, "EOF", frPos, frCurrChunk, frEof)
           ELSE IF frCurrChunk = U32Zero /\ left = 0
           THEN m = 0 /\ FrCall(k, 0, "EOF", frPos, frCurrChunk, frEof)
           ELSE IF frCurrChunk = U32Zero /\ left < 4
           THEN m = 0 /\ FrCall(k, 0, "ErrUnexpectedEOF", Len(frStream), frCurrChunk, frEof)
           ELSE LET atBoundary == frCurrChunk = U32Zero
                    length     == FromBE32(SubSeq(frStream, frPos + 1, frPos + 4))
                    pos        == IF atBoundary THEN frPos + 4 ELSE frPos
                    curr       == IF atBoundary THEN length ELSE frCurrChunk
                    lim        == ReadLimit(k, curr)
                    there      == Len(frStream) - pos
                IN  IF atBoundary /\ length = U32Zero
                    THEN m = 0 /\ FrCall(k, 0, "EOF", pos, frCurrChunk, TRUE)
                    ELSE IF lim = 0
                    THEN m = 0 /\ FrCall(k, 0, "nil", pos, curr, frEof)
                    ELSE IF there = 0
                    THEN m = 0 /\ FrCall(k, 0, "EOF", pos, curr, frEof)
                    ELSE /\ m >= 1 /\ m <= lim /\ m <= there
                         /\ FrCall(k, m, "nil", pos + m, U32Sub(curr, m), frEof)
    /\ UNCHANGED <<frStream, frFramed>>
    /\ UNCHANGED outsideReader

NextReader ==
    \E k \in FrBufs, m \in FrBufs : FrRead(k, m)

SpecReader == InitReader /\ [][NextReader]_vars

\* ------------------------------------------------------------ chunked reader properties

\* Bytes the Read calls returned.
RECURSIVE FrReturned(_)
FrReturned(calls) ==
    IF calls = <<>> THEN 0
    ELSE calls[Len(calls)].n + FrReturned(SubSeq(calls, 1, Len(calls) - 1))

\* C31: the reader never consumes a byte after the sentinel; at end of stream
\* it has consumed the length prefixes, the payloads it returned and the
\* sentinel, so that what follows it on the stream is what followed the
\* writer's output; a Read made after end of stream returns end-of-stream
\* again and consumes nothing.
C31_FooterAlignment ==
    /\ frFramed >= 0 => frPos <= frFramed
    /\ frEof =>
          /\ frPos = frFramed
          /\ frPos = FrReturned(frCalls) + 4 * Len(ChunkLengths(Take(frStream, frPos)))
          /\ Drop(frStream, frPos) \in FrTrails
    /\ \A i \in 1..Len(frCalls) :
          frCalls[i].eof0 =>
             /\ frCalls[i].n = 0 /\ frCalls[i].err = "EOF"
             /\ frCalls[i].pos1 = frCalls[i].pos0

\* Two chunks were read to the sentinel, a further Read was made, and the
\* bytes that follow are still on the stream.
C31_Witness ==
    /\ frEof
    /\ frStream = Framed(<<(<<1>>), (<<0, 1>>)>>) \o <<0, 0, 0, 1, 1>>
    /\ frCalls[Len(frCalls)].eof0
    /\ Drop(frStream, frPos) = <<0, 0, 0, 1, 1>>

\* C32 (as claimed): a Read returns end-of-stream only once a chunk length of
\* 0 has been read.
C32_EofOnlyOnSentinel ==
    \A i \in 1..Len(frCalls) : frCalls[i].err = "EOF" => frCalls[i].eof1

\* ------------------------------------------------------------ stop properties

\* C33 (as claimed): while a sender session that nobody has cancelled is
\* running, isSending is set and senderCancel is that session's cancel
\* function, so that StopSending reaches it.
C33_StopReachesSession ==
    \A x \in Running :
       ~sessions[x].cancelled => (isSending /\ senderCancel = x)

\* ------------------------------------------------------------ outcome event properties

\* C34: an approved connection's handler has invoked exactly one of
\* OnComplete and OnError, once, when it has finished and none before;
\* OnComplete after the header, all the content from the offset and the
\* footer were written, OnError after a step failed and no footer was written;
\* a rejected connection has neither.
C34_SenderOutcome ==
    /\ onComplete + onError <= 1
    /\ onComplete = 1 <=> spc = "done"
    /\ onError = 1 <=> spc = "failed"
    /\ spc = "done" =>
          /\ sErr = "none"
          /\ Len(hdr) = 1 /\ Len(seeks) = 1 /\ Len(sFooter) = 1
          /\ sPos = fileSize
          /\ sReadBytes = Drop(content, seeks[1])
          /\ sFooter[1] = Digest(sHash)
          /\ sTrace[1] = "approve" /\ sTrace[Len(sTrace)] = "footer"
    /\ spc = "failed" =>
          /\ sErr # "none"
          /\ Len(sFooter) = 0
          /\ sTrace[1] = "approve"

\* A handler completed a transfer that resumed from an offset.
C34_Witness ==
    /\ spc = "done" /\ onComplete = 1 /\ onError = 0
    /\ seeks[1] > 0

\* A handler failed after it had written content.
C34_WitnessError ==
    /\ spc = "failed" /\ onError = 1 /\ onComplete = 0
    /\ Len(wire) > 0

\* The errors ReceiveConnectWithOptions has passed to opts.OnError: the
\* field is declared in ReceiverOptions and no statement invokes it.
ReceiverOnErrorCalls == <<>>

\* C35 (as claimed): a receive session that has returned has put exactly one
\* outcome event on its sink: OnComplete when it returned nil, OnError with
\* the error when it returned an error.
C35_ReceiverOutcome ==
    /\ rpc = "done" => (rComplete = 1 /\ ReceiverOnErrorCalls = <<>>)
    /\ rpc = "error" => (rComplete = 0 /\ ReceiverOnErrorCalls = <<rErr>>)

\* ------------------------------------------------------------ negative length properties

\* C36 (as claimed): a handler that has read a request record announcing a
\* negative length has failed its connection with an error outcome, and the
\* process is running.
C36_NegativeLength ==
    \A c \in Conns :
       (handlers[c].req # <<>> /\ handlers[c].req[1].len < 0) =>
          /\ ~crashed
          /\ handlers[c].pc = "failed"
          /\ handlers[c].report = "error"

\* ------------------------------------------------------------ approval properties

\* Handlers inside the approval callback.
Approving == {c \in Conns : handlers[c].pc = "approving"}

\* C37: at most one handler is inside the approval callback, and it holds
\* promptMu; a handler that was approved can take its next step whoever
\* holds promptMu.
C37_ApprovalSerialized ==
    /\ Cardinality(Approving) <= 1
    /\ \A c \in Approving : promptMu = c
    /\ promptMu # 0 => promptMu \in Approving
    /\ \A c \in Conns :
          ~crashed =>
             /\ handlers[c].pc = "header" => ENABLED HSendHeader(c)
             /\ handlers[c].pc = "stream" => ENABLED HStream(c)

\* One handler streams while another is inside the approval callback.
C37_Witness ==
    \E c \in Conns : \E d \in Conns \ {c} :
       /\ handlers[c].pc = "stream"
       /\ handlers[d].pc = "approving" /\ promptMu = d

\* One handler waits for promptMu while another is inside the callback.
C37_WitnessWaiting ==
    \E c \in Conns : \E d \in Conns \ {c} :
       /\ handlers[c].pc = "accepted"
       /\ handlers[d].pc = "approving" /\ promptMu = d

\* ------------------------------------------------------------ progress properties

\* Progress records from offset towards total: strictly increasing, the
\* first above the offset, none above the total.
ProgressInRange(records, offset) ==
    /\ \A i \in 1..Len(records) :
          /\ records[i].bytes <= records[i].total
          /\ i > 1 => records[i].bytes > records[i - 1].bytes
    /\ Len(records) > 0 => records[1].bytes > offset

\* The last record, if there is one, reports the total.
ProgressComplete(records) ==
    Len(records) > 0 => records[Len(records)].bytes = records[Len(records)].total

\* C38 (as claimed): on the sender and on the receiver the progress records
\* of a connection increase strictly from above the negotiated offset, none
\* exceeds total_bytes (the size), and on success the last one equals it.
C38_ProgressRecords ==
    /\ \A i \in 1..Len(sProgress) : sProgress[i].total = fileSize
    /\ Len(sProgress) > 0 => ProgressInRange(sProgress, seeks[1])
    /\ spc = "done" => ProgressComplete(sProgress)
    /\ \A i \in 1..Len(rProgress) : rProgress[i].total = rHeader[1].size
    /\ ProgressInRange(rProgress, rOffset)
    /\ rpc = "done" => ProgressComplete(rProgress)

\* ------------------------------------------------------------ history store

\* "Keep max 100 entries", scaled.
HistoryCap == 2

\* addHistoryEntry calls made in one run.
MaxAdds == 4

\* Goroutines (handler callbacks) calling addHistoryEntry concurrently.
HsCallerIds == {1, 2}

HsIdle == [pc |-> "idle", entry |-> 0, local |-> <<>>]

\* Entries of earlier runs as history.json holds them, oldest first: entry 0,
\* then -1, ... the newest.
HsLoaded(n) == [i \in 1..n |-> i - n]

RECURSIVE Reverse(_)
Reverse(q) == IF q = <<>> THEN <<>> ELSE Append(Reverse(Tail(q)), Head(q))

\* history.json at startup: missing or not parsable, or as an earlier run left
\* it, or longer.
HsFiles ==
    {[valid |-> FALSE, entries |-> <<>>]}
       \cup {[valid |-> TRUE, entries |-> Reverse(HsLoaded(n))] : n \in 0..(HistoryCap + 1)}

\* startup has called loadHistory: the store holds the entries of a file that
\* parses and is empty otherwise.
InitHistory ==
    /\ CoreAtRest /\ EarlierAtRest /\ ReaderAtRest /\ ProgressAtRest
    /\ hsFile \in HsFiles
    /\ hsEntries = hsFile.entries
    /\ hsLog = Reverse(hsFile.entries)
    /\ hsBase = Len(hsFile.entries)
    /\ hsMu = 0
    /\ hsCallers = [k \in HsCallerIds |-> HsIdle]
    /\ hsIssued = 0
    /\ hsLoader = "idle"

\* A callback calls addHistoryEntry with a new entry.
HsCall(k) ==
    /\ hsCallers[k].pc = "idle"
    /\ hsIssued < MaxAdds
    /\ hsIssued' = hsIssued + 1
    /\ hsCallers' = [hsCallers EXCEPT ![k] = [pc |-> "lock", entry |-> hsIssued + 1,
                                              local |-> <<>>]]
    /\ UNCHANGED <<hsEntries, hsMu, hsLog, hsBase, hsFile, hsLoader>>
    /\ UNCHANGED outsideHistory

\* An entry that goes in without waiting for the mutex.
HsLock_NoMutex(k) ==
    /\ hsCallers[k].pc = "lock"
    /\ hsMu' = k
    /\ hsCallers' = [hsCallers EXCEPT ![k].pc = "append"]
    /\ UNCHANGED <<hsEntries, hsIssued, hsLog, hsBase, hsFile, hsLoader>>
    /\ UNCHANGED outsideHistory

\* store.mu.Lock()
HsLock(k) ==
    /\ hsCallers[k].pc = "lock"
    /\ hsMu = 0
    /\ hsMu' = k
    /\ hsCallers' = [hsCallers EXCEPT ![k].pc = "append"]
    /\ UNCHANGED <<hsEntries, hsIssued, hsLog, hsBase, hsFile, hsLoader>>
    /\ UNCHANGED outsideHistory

\* append([]HistoryEntry{entry}, store.entries...): the new slice is built
\* from the entries read.
HsAppend(k) ==
    /\ hsCallers[k].pc = "append"
    /\ hsCallers' = [hsCallers EXCEPT ![k].pc = "store",
                                      ![k].local = <<hsCallers[k].entry>> \o hsEntries]
    /\ UNCHANGED <<hsEntries, hsMu, hsIssued, hsLog, hsBase, hsFile, hsLoader>>
    /\ UNCHANGED outsideHistory

\* if len(store.entries) > 100 { store.entries = store.entries[:100] }
HsTrim(entries) ==
    IF Len(entries) > HistoryCap THEN Take(entries, HistoryCap) ELSE entries

\* saveHistory: os.WriteFile replaces the file by the store's entries
\* ("saved"); configDir, or the opening of the file, fails and the file stays
\* as it was ("unchanged"); or the write fails after the file was truncated
\* and what is left does not parse ("cut").  The store is not touched.
saveHistory(outcome, entries) ==
    CASE outcome = "saved"     -> [valid |-> TRUE, entries |-> entries]
      [] outcome = "unchanged" -> hsFile
      [] outcome = "cut"       -> [valid |-> FALSE, entries |-> <<>>]

\* store.entries is assigned and trimmed, saveHistory runs and the deferred
\* store.mu.Unlock() releases the mutex: the call returns, its error dropped
\* by the callback.
HsStore(k) ==
    /\ hsCallers[k].pc = "store"
    /\ hsEntries' = HsTrim(hsCallers[k].local)
    /\ \E outcome \in {"saved", "unchanged", "cut"} :
          hsFile' = saveHistory(outcome, HsTrim(hsCallers[k].local))
    /\ hsMu' = 0
    /\ hsLog' = Append(hsLog, hsCallers[k].entry)
    /\ hsCallers' = [hsCallers EXCEPT ![k] = HsIdle]
    /\ UNCHANGED <<hsIssued, hsBase, hsLoader>>
    /\ UNCHANGED outsideHistory

\* App.GetTransferHistory calls loadHistory, which takes store.mu (holder 3).
HsLoadLock ==
    /\ hsLoader = "idle"
    /\ hsMu = 0
    /\ hsMu' = 3
    /\ hsLoader' = "read"
    /\ UNCHANGED <<hsEntries, hsCallers, hsIssued, hsLog, hsBase, hsFile>>
    /\ UNCHANGED outsideHistory

\* loadHistory: the file is read and parsed; store.entries becomes what it
\* holds, whatever the store held; a file that cannot be read or does not
\* parse leaves the store alone.  The deferred Unlock releases the mutex.
loadHistory ==
    /\ hsLoader = "read"
    /\ \E readable \in BOOLEAN :
          IF readable /\ hsFile.valid
          THEN /\ hsEntries' = hsFile.entries
               /\ hsLog' = Reverse(hsFile.entries)
               /\ hsBase' = Len(hsFile.entries)
          ELSE UNCHANGED <<hsEntries, hsLog, hsBase>>
    /\ hsMu' = 0
    /\ hsLoader' = "idle"
    /\ UNCHANGED <<hsCallers, hsIssued, hsFile>>
    /\ UNCHANGED outsideHistory

NextHistory ==
    \/ \E k \in HsCallerIds : HsCall(k)
    \/ \E k \in HsCallerIds : HsLock(k)
    \/ \E k \in HsCallerIds : HsAppend(k)
    \/ \E k \in HsCallerIds : HsStore(k)
    \/ HsLoadLock
    \/ loadHistory

SpecHistory == InitHistory /\ [][NextHistory]_vars

\* ------------------------------------------------------------ history properties

\* addHistoryEntry calls that have returned since the store was last loaded.
HsSince == Len(hsLog) - hsBase

\* C39: whenever nobody is inside the critical section, the store holds the
\* entries it was last loaded with and, in front of them, the entry of every
\* addHistoryEntry call that has returned since, newest first, cut to the cap
\* at the old end: each call adds one entry at the front, none is lost below
\* the cap, only the oldest are dropped, and once a call has returned the
\* store holds at most the cap.
C39_HistoryStore ==
    /\ \A k \in HsCallerIds : hsCallers[k].pc \in {"append", "store"} => hsMu = k
    /\ hsLoader = "read" => hsMu = 3
    /\ hsMu = 0 =>
          LET all == Reverse(hsLog)
          IN  /\ HsSince > 0 => Len(hsEntries) <= HistoryCap
              /\ IsPrefix(hsEntries, all)
              /\ Len(hsEntries) = IF HsSince = 0 THEN Len(all)
                                  ELSE Min(Len(all), HistoryCap)

\* Three calls, two of them overlapping, have returned on a store that was
\* loaded below the cap and now has dropped its oldest entries.
C39_Witness ==
    /\ hsMu = 0
    /\ HsSince >= 3
    /\ hsBase < HistoryCap
    /\ Len(hsLog) > HistoryCap
    /\ Len(hsEntries) = HistoryCap
    /\ hsEntries[1] = hsLog[Len(hsLog)]

\* An entry whose save failed is gone from the store after the next
\* GetTransferHistory: the store is again what the file holds.
HsReloadDropsUnsaved ==
    /\ hsMu = 0
    /\ hsIssued > 0 /\ \A k \in HsCallerIds : hsCallers[k].pc = "idle"
    /\ hsFile.valid /\ hsEntries = hsFile.entries
    /\ \A i \in 1..Len(hsEntries) : hsEntries[i] <= 0

====
